---- MODULE Spec2Model ----
(***************************************************************************)
(* A model of the 30XX mod manager core: the manifest/task execution       *)
(* model (txxmodmanager/manifest_v1.py), the path and string helpers       *)
(* (txxmodmanager/util.py) and the two filesystem backends                 *)
(* (txxmodmanager/filesystem.py).                                          *)
(*                                                                         *)
(* Python strings are sequences of one-character strings, so that strip,   *)
(* truncation, splitting and os.path.normpath are computed, not assumed.   *)
(* The host filesystem is one map from absolute path strings to entries    *)
(* (directory, file with bytes, file holding a zip archive); both          *)
(* filesystems of a Context live on that one host.                         *)
(***************************************************************************)
EXTENDS Integers, Sequences, FiniteSets, TLC

(***************************************************************************)
(* Python strings                                                          *)
(***************************************************************************)

\* "abc" as the model writes it: a sequence of characters.
SLASH == "/"
BSLASH == "\\"
COLON == ":"
DOT == "."
SPACE == " "

\* str.lower() on the characters the model uses.
LowerChar(c) ==
    CASE c = "T" -> "t"
      [] c = "F" -> "f"
      [] c = "Y" -> "y"
      [] c = "N" -> "n"
      [] c = "S" -> "s"
      [] c = "A" -> "a"
      [] c = "I" -> "i"
      [] c = "Z" -> "z"
      [] OTHER -> c

Lower(s) == [i \in 1..Len(s) |-> LowerChar(s[i])]

\* s[:n] (n = -1 stands for Python's None: no truncation).
Take(s, n) == IF n < 0 \/ Len(s) <= n THEN s ELSE SubSeq(s, 1, n)

LStrip(s) ==
    LET keep == {i \in 1..Len(s) : s[i] # SPACE}
    IN  IF keep = {} THEN <<>>
        ELSE SubSeq(s, CHOOSE i \in keep : \A j \in keep : i <= j, Len(s))

RStrip(s) ==
    LET keep == {i \in 1..Len(s) : s[i] # SPACE}
    IN  IF keep = {} THEN <<>>
        ELSE SubSeq(s, 1, CHOOSE i \in keep : \A j \in keep : i >= j)

\* str.strip()
Strip(s) == RStrip(LStrip(s))

\* s.split(sep)-like splitting on any character of seps (re.split(r":|\\|/", s)
\* for seps = {":", "\\", "/"}): empty parts are kept.
RECURSIVE SplitOn(_, _)
SplitOn(s, seps) ==
    LET cut == {i \in 1..Len(s) : s[i] \in seps}
        first == CHOOSE i \in cut : \A j \in cut : i <= j
    IN  IF cut = {} THEN <<s>>
        ELSE <<SubSeq(s, 1, first - 1)>> \o SplitOn(SubSeq(s, first + 1, Len(s)), seps)

\* sep.join(parts)
RECURSIVE Join(_, _)
Join(parts, sep) ==
    IF parts = <<>> THEN <<>>
    ELSE IF Len(parts) = 1 THEN parts[1]
    ELSE parts[1] \o sep \o Join(Tail(parts), sep)

\* filter(None, parts): the non-empty parts
RECURSIVE NonEmpty(_)
NonEmpty(parts) ==
    IF parts = <<>> THEN <<>>
    ELSE IF Head(parts) = <<>> THEN NonEmpty(Tail(parts))
    ELSE <<Head(parts)>> \o NonEmpty(Tail(parts))

StartsWith(s, p) == Len(p) <= Len(s) /\ SubSeq(s, 1, Len(p)) = p

DOTDOT == <<DOT, DOT>>
CURDIR == <<DOT>>

(***************************************************************************)
(* os.path.normpath, for the two platforms the program runs on             *)
(* (util.default_game_directory: 'win' and 'linux')                        *)
(***************************************************************************)

\* posixpath.normpath: the loop over the components.
RECURSIVE PosixCollapse(_, _, _)
PosixCollapse(comps, acc, rooted) ==
    IF comps = <<>> THEN acc
    ELSE LET c == Head(comps)
             r == Tail(comps)
         IN  IF c = <<>> \/ c = CURDIR THEN PosixCollapse(r, acc, rooted)
             ELSE IF c # DOTDOT
                     \/ (~rooted /\ acc = <<>>)
                     \/ (acc # <<>> /\ acc[Len(acc)] = DOTDOT)
                  THEN PosixCollapse(r, Append(acc, c), rooted)
                  ELSE IF acc # <<>>
                       THEN PosixCollapse(r, SubSeq(acc, 1, Len(acc) - 1), rooted)
                       ELSE PosixCollapse(r, acc, rooted)

PosixNormpath(path) ==
    IF path = <<>> THEN CURDIR
    ELSE LET slashes == IF ~StartsWith(path, <<SLASH>>) THEN 0
                        ELSE IF StartsWith(path, <<SLASH, SLASH>>)
                                /\ ~StartsWith(path, <<SLASH, SLASH, SLASH>>)
                             THEN 2 ELSE 1
             comps == PosixCollapse(SplitOn(path, {SLASH}), <<>>, slashes > 0)
             body == Join(comps, <<SLASH>>)
             out == [i \in 1..slashes |-> SLASH] \o body
         IN  IF out = <<>> THEN CURDIR ELSE out

\* path.replace('/', '\\')
ToBackslash(s) == [i \in 1..Len(s) |-> IF s[i] = SLASH THEN BSLASH ELSE s[i]]

\* str.find(sep, start) over 1-based positions; 0 when absent.
FindFrom(s, c, i) ==
    LET at == {j \in i..Len(s) : s[j] = c}
    IN  IF at = {} THEN 0 ELSE CHOOSE j \in at : \A k \in at : j <= k

\* ntpath.splitdrive: the length of the drive (or UNC share) prefix.
NtDriveLen(p) ==
    LET n == ToBackslash(p)
    IN  IF Len(p) < 2 THEN 0
        ELSE IF n[1] = BSLASH /\ n[2] = BSLASH
             THEN LET index == FindFrom(n, BSLASH, 3)
                  IN  IF index = 0 THEN Len(p)
                      ELSE LET index2 == FindFrom(n, BSLASH, index + 1)
                           IN  IF index2 = 0 THEN Len(p) ELSE index2 - 1
             ELSE IF n[2] = COLON THEN 2 ELSE 0

\* ntpath.normpath: the loop over the components.
RECURSIVE NtCollapse(_, _, _)
NtCollapse(comps, acc, rooted) ==
    IF comps = <<>> THEN acc
    ELSE LET c == Head(comps)
             r == Tail(comps)
         IN  IF c = <<>> \/ c = CURDIR THEN NtCollapse(r, acc, rooted)
             ELSE IF c = DOTDOT
                  THEN IF acc # <<>> /\ acc[Len(acc)] # DOTDOT
                       THEN NtCollapse(r, SubSeq(acc, 1, Len(acc) - 1), rooted)
                       ELSE IF acc = <<>> /\ rooted
                            THEN NtCollapse(r, acc, rooted)
                            ELSE NtCollapse(r, Append(acc, c), rooted)
                  ELSE NtCollapse(r, Append(acc, c), rooted)

\* str.lstrip('\\')
LStripSep(s) ==
    LET keep == {i \in 1..Len(s) : s[i] # BSLASH}
    IN  IF keep = {} THEN <<>>
        ELSE SubSeq(s, CHOOSE i \in keep : \A j \in keep : i <= j, Len(s))

NtNormpath(path) ==
    LET p == ToBackslash(path)
        d == NtDriveLen(p)
        drive == SubSeq(p, 1, d)
        rest == SubSeq(p, d + 1, Len(p))
        rooted == StartsWith(rest, <<BSLASH>>)
        prefix == IF rooted THEN drive \o <<BSLASH>> ELSE drive
        comps == NtCollapse(SplitOn(LStripSep(rest), {BSLASH}), <<>>, rooted)
    IN  IF prefix = <<>> /\ comps = <<>> THEN CURDIR
        ELSE prefix \o Join(comps, <<BSLASH>>)

\* os.path.normpath on the running platform.
Normpath(platform, path) ==
    IF platform = "nt" THEN NtNormpath(path) ELSE PosixNormpath(path)

(***************************************************************************)
(* Python values of a manifest node (what yaml.safe_load returns)          *)
(***************************************************************************)

PyNone == [t |-> "none", s |-> <<>>, l |-> <<>>]
PyStr(s) == [t |-> "str", s |-> s, l |-> <<>>]
PyTrue == [t |-> "bool", s |-> <<"T", "r", "u", "e">>, l |-> <<>>]
PyFalse == [t |-> "bool", s |-> <<"F", "a", "l", "s", "e">>, l |-> <<>>]
PyBool(b) == IF b THEN PyTrue ELSE PyFalse
\* a list of strings
PyList(l) == [t |-> "list", s |-> <<>>, l |-> l]

\* repr of a list of strings: ['a', 'b']
RECURSIVE ReprItems(_)
ReprItems(l) ==
    IF l = <<>> THEN <<>>
    ELSE <<"'">> \o Head(l) \o <<"'">>
         \o (IF Len(l) > 1 THEN <<",", " ">> ELSE <<>>) \o ReprItems(Tail(l))

\* str(val)
PyToStr(v) ==
    CASE v.t = "none" -> <<"N", "o", "n", "e">>
      [] v.t = "list" -> <<"[">> \o ReprItems(v.l) \o <<"]">>
      [] OTHER -> v.s

\* A node is a dict (kv: a function from its keys to Python values) or some
\* other value (isdict = FALSE).
Dict(kv) == [isdict |-> TRUE, kv |-> kv]
NotADict == [isdict |-> FALSE, kv |-> <<>>]
Has(node, key) == key \in DOMAIN node.kv

MAX_NAME_LENGTH == 64
MAX_DESC_LENGTH == 1024
MAX_TAG_LENGTH == 255
MAX_SPRITE_LENGTH == 128
MAX_AUTHOR_LENGTH == 512
MAX_PATH_LENGTH == 256

\* util.normalize_str
normalize_str(val, length) == Take(Strip(PyToStr(val)), length)

\* util.boolean
boolean(val) ==
    Lower(PyToStr(val)) \in {<<"t", "r", "u", "e">>, <<"y", "e", "s">>}

\* util.normalize_package_path (max_len at its default)
normalize_package_path(plat, path) ==
    LET parts == SplitOn(Normpath(plat, Take(Strip(PyToStr(path)), MAX_PATH_LENGTH)),
                         {COLON, BSLASH, SLASH})
    IN  <<SLASH>> \o Join(NonEmpty(parts), <<SLASH>>)

(***************************************************************************)
(* The host filesystem: absolute path string -> entry                      *)
(***************************************************************************)

Absent == [k |-> "absent", bytes |-> "", zip |-> <<>>]
DirEntry == [k |-> "dir", bytes |-> "", zip |-> <<>>]
\* a regular file holding the bytes b ("" is the empty file)
FileEntry(b) == [k |-> "file", bytes |-> b, zip |-> <<>>]
\* a file holding a zip archive: its members in the order they were written,
\* each [name, bytes], after a prefix of other bytes (usually none)
ZipEntry(prefix, members) == [k |-> "zipfile", bytes |-> prefix, zip |-> members]
Member(name, b) == [name |-> name, bytes |-> b]

Get(disk, p) == IF p \in DOMAIN disk THEN disk[p] ELSE Absent
Put(disk, p, e) == [q \in (DOMAIN disk) \cup {p} |-> IF q = p THEN e ELSE disk[q]]

Sep(plat) == IF plat = "nt" THEN BSLASH ELSE SLASH

\* the root directory of a host path: "/" or "C:\"
IsHostRoot(plat, p) ==
    IF plat = "nt" THEN Len(p) = 3 /\ p[2] = COLON /\ p[3] = BSLASH
    ELSE p = <<SLASH>>

RECURSIVE LastIndex(_, _, _)
LastIndex(s, c, i) ==
    IF i = 0 THEN 0 ELSE IF s[i] = c THEN i ELSE LastIndex(s, c, i - 1)

\* os.path.dirname of a normalized absolute path
Parent(plat, p) ==
    LET i == LastIndex(p, Sep(plat), Len(p))
        head == SubSeq(p, 1, i)
    IN  IF IsHostRoot(plat, head) \/ i <= 1 THEN head ELSE SubSeq(p, 1, i - 1)

IsDirAt(plat, disk, p) == IsHostRoot(plat, p) \/ Get(disk, p).k = "dir"

\* os.path.exists
PathExists(plat, disk, p) == IsHostRoot(plat, p) \/ Get(disk, p).k # "absent"

\* why the entry at p cannot be reached, when its directory is missing
MissingError(plat, disk, p) ==
    IF Get(disk, Parent(plat, p)).k \in {"file", "zipfile"}
    THEN "NotADirectoryError" ELSE "FileNotFoundError"

\* the bytes a raw read of a host file yields
RawBytes(e) == IF e.k = "zipfile" THEN "ZIP" ELSE e.bytes

\* builtin open(p, 'r' | 'rb'): the error, if any
PyOpenReadError(plat, disk, p) ==
    IF IsDirAt(plat, disk, p) THEN "IsADirectoryError"
    ELSE IF Get(disk, p).k = "absent" THEN MissingError(plat, disk, p)
    ELSE ""

\* builtin open(p, 'w' | 'wb'): the error, if any; the file is created or
\* truncated at once otherwise
PyOpenWriteError(plat, disk, p) ==
    IF IsDirAt(plat, disk, p) THEN "IsADirectoryError"
    ELSE IF ~IsDirAt(plat, disk, Parent(plat, p)) THEN MissingError(plat, disk, p)
    ELSE ""

(***************************************************************************)
(* filesystem.py: a filesystem object is [kind, path]                      *)
(***************************************************************************)

DirectoryFS(path) == [kind |-> "dir", path |-> path]
PackageFS(path) == [kind |-> "zip", path |-> path]

\* FileSystem.exists
FileSystem_exists(plat, disk, fs) == PathExists(plat, disk, fs.path)

\* DirectoryFS.file_abspath
DirectoryFS_file_abspath(plat, fs, path) ==
    Normpath(plat, fs.path \o <<SLASH>> \o PyToStr(path))

\* PackageFS.normalize_path (path[0] raises IndexError on the empty string)
PackageFS_normalize_path(path) ==
    LET s == PyToStr(path)
    IN  IF s # <<>> /\ Head(s) = SLASH THEN Tail(s) ELSE s

PackageFS_normalize_path_error(path) ==
    IF PyToStr(path) = <<>> THEN "IndexError" ELSE ""

\* PackageFS.file_abspath (diagnostics only)
PackageFS_file_abspath(plat, fs, path) ==
    fs.path \o <<"$">> \o normalize_package_path(plat, path)

\* the member a name addresses: the last one written under it (0: none)
RECURSIVE MemberIndex(_, _, _)
MemberIndex(members, name, i) ==
    IF i = 0 THEN 0
    ELSE IF members[i].name = name THEN i ELSE MemberIndex(members, name, i - 1)

HasMember(members, name) == MemberIndex(members, name, Len(members)) # 0

\* zipfile.Path(archive, at).exists(): a member of that name, or a directory
\* implied by a member below it when at ends with '/'
ZipPath_exists(members, at) ==
    \/ HasMember(members, at)
    \/ /\ at # <<>>
       /\ at[Len(at)] = SLASH
       /\ \E i \in 1..Len(members) : StartsWith(members[i].name, at)

\* ZipFile(path, 'r'): the error, if any
ZipOpenReadError(plat, disk, p) ==
    LET e == PyOpenReadError(plat, disk, p)
    IN  IF e # "" THEN e
        ELSE IF Get(disk, p).k # "zipfile" THEN "BadZipFile" ELSE ""

\* ZipFile(path, 'a'): the error, if any
ZipOpenAppendError(plat, disk, p) ==
    IF IsDirAt(plat, disk, p) THEN "IsADirectoryError"
    ELSE IF Get(disk, p).k = "absent" /\ ~IsDirAt(plat, disk, Parent(plat, p))
         THEN MissingError(plat, disk, p)
    ELSE ""

\* ZipFile(path, 'w') ... close(): the archive file is written anew
ZipWriteClosed(disk, p) == ZipEntry("", <<>>)

\* ZipFile(path, 'a') ... close(): what the archive file holds afterwards when
\* nothing was written through it. A missing file is created, and a file that
\* is no archive gets the end-of-archive record appended: both become an
\* archive without members. An archive is left as it is.
ZipAppendClosed(disk, p) ==
    LET e == Get(disk, p)
    IN  IF e.k = "zipfile" THEN e ELSE ZipEntry(e.bytes, <<>>)

\* PackageFS.file_exists, with e the error of ZipFile(self.path, 'r')
ZipFile_exists(disk, fs, path, e) ==
    IF e # "" THEN [exc |-> e, val |-> FALSE]
    ELSE IF PackageFS_normalize_path_error(path) # ""
         THEN [exc |-> PackageFS_normalize_path_error(path), val |-> FALSE]
    ELSE [exc |-> "",
          val |-> ZipPath_exists(Get(disk, fs.path).zip, PackageFS_normalize_path(path))]

\* PackageFS.file_exists: [exc, val]
PackageFS_file_exists(plat, disk, fs, path) ==
    ZipFile_exists(disk, fs, path, ZipOpenReadError(plat, disk, fs.path))

\* DirectoryFS.file_exists: [exc, val]
DirectoryFS_file_exists(plat, disk, fs, path) ==
    [exc |-> "",
     val |-> PathExists(plat, disk, DirectoryFS_file_abspath(plat, fs, path))]

file_exists(plat, disk, fs, path) ==
    IF fs.kind = "zip" THEN PackageFS_file_exists(plat, disk, fs, path)
    ELSE DirectoryFS_file_exists(plat, disk, fs, path)

\* PackageFS.open(filename, 'r' | 'rb') and the read of the whole member, with
\* e the error of ZipFile(self.path, 'a') and archive what that file holds
\* once the ZipFile is closed
ZipFile_read(disk, fs, path, e, archive) ==
    IF e # "" THEN [exc |-> e, disk |-> disk, bytes |-> ""]
    ELSE IF PackageFS_normalize_path_error(path) # ""
         THEN [exc |-> "IndexError", disk |-> Put(disk, fs.path, archive), bytes |-> ""]
    ELSE IF ~HasMember(archive.zip, PackageFS_normalize_path(path))
         THEN [exc |-> "KeyError", disk |-> Put(disk, fs.path, archive), bytes |-> ""]
    ELSE [exc |-> "", disk |-> Put(disk, fs.path, archive),
          bytes |-> archive.zip[MemberIndex(archive.zip, PackageFS_normalize_path(path),
                                            Len(archive.zip))].bytes]

\* PackageFS.open(filename, 'r' | 'rb') and the read: [exc, disk, bytes]. The
\* archive is opened in append mode also for a read.
PackageFS_open_read(plat, disk, fs, path) ==
    ZipFile_read(disk, fs, path, ZipOpenAppendError(plat, disk, fs.path),
                 ZipAppendClosed(disk, fs.path))

\* builtin open(p, 'r' | 'rb') and the read of the whole file, with e its error
File_read(disk, p, e) ==
    [exc |-> e, disk |-> disk, bytes |-> IF e = "" THEN RawBytes(Get(disk, p)) ELSE ""]

File_open_read(plat, disk, p) == File_read(disk, p, PyOpenReadError(plat, disk, p))

\* DirectoryFS.open(filename, 'r' | 'rb') and the read: [exc, disk, bytes]
DirectoryFS_open_read(plat, disk, fs, path) ==
    File_open_read(plat, disk, DirectoryFS_file_abspath(plat, fs, path))

open_read(plat, disk, fs, path) ==
    IF fs.kind = "zip" THEN PackageFS_open_read(plat, disk, fs, path)
    ELSE DirectoryFS_open_read(plat, disk, fs, path)

\* PackageFS.open(filename, 'wb'), the write of b and the close, with e and
\* archive as for the read. The member is appended; an earlier member of that
\* name stays in the file.
ZipFile_write(disk, fs, path, b, e, archive) ==
    IF e # "" THEN [exc |-> e, disk |-> disk]
    ELSE IF PackageFS_normalize_path_error(path) # ""
         THEN [exc |-> "IndexError", disk |-> Put(disk, fs.path, archive)]
    ELSE [exc |-> "",
          disk |-> Put(disk, fs.path,
                       ZipEntry(archive.bytes,
                                Append(archive.zip,
                                       Member(PackageFS_normalize_path(path), b))))]

\* PackageFS.open(filename, 'wb'), the write of b and the close: [exc, disk]
PackageFS_open_write(plat, disk, fs, path, b) ==
    ZipFile_write(disk, fs, path, b, ZipOpenAppendError(plat, disk, fs.path),
                  ZipAppendClosed(disk, fs.path))

\* builtin open(p, 'wb'), the write of b and the close, with e its error
File_write(disk, p, b, e) ==
    IF e # "" THEN [exc |-> e, disk |-> disk]
    ELSE [exc |-> "", disk |-> Put(disk, p, FileEntry(b))]

File_open_write(plat, disk, p, b) ==
    File_write(disk, p, b, PyOpenWriteError(plat, disk, p))

\* DirectoryFS.open(filename, 'wb'), the write of b and the close: [exc, disk]
DirectoryFS_open_write(plat, disk, fs, path, b) ==
    File_open_write(plat, disk, DirectoryFS_file_abspath(plat, fs, path), b)

open_write(plat, disk, fs, path, b) ==
    IF fs.kind = "zip" THEN PackageFS_open_write(plat, disk, fs, path, b)
    ELSE DirectoryFS_open_write(plat, disk, fs, path, b)

\* What reaches the file under a TextIOWrapper that is never closed or flushed
\* before the file is: the wrapper keeps what is written in its buffer until
\* more than its chunk size (8192 bytes) is pending. "BIG" stands for a text
\* longer than that written in one call; the other contents are shorter.
TextIOWrapper_written(b) == IF b = "BIG" THEN b ELSE ""

\* PackageFS.open(filename, 'w'), the write of the text b and the close: the
\* entry is closed by "with archive.open(...) as file", not the wrapper that
\* was yielded
PackageFS_open_write_text(plat, disk, fs, path, b) ==
    PackageFS_open_write(plat, disk, fs, path, TextIOWrapper_written(b))

\* open(filename, 'w'), the write of the text b and the close: [exc, disk]
open_write_text(plat, disk, fs, path, b) ==
    IF fs.kind = "zip" THEN PackageFS_open_write_text(plat, disk, fs, path, b)
    ELSE DirectoryFS_open_write(plat, disk, fs, path, b)

\* os.mkdir(p) once the directories above it were made (up: [exc, disk])
Mkdir(plat, p, up) ==
    IF up.exc # "" THEN up
    ELSE IF ~IsDirAt(plat, up.disk, Parent(plat, p))
         THEN [exc |-> "NotADirectoryError", disk |-> up.disk]
    ELSE [exc |-> "", disk |-> Put(up.disk, p, DirEntry)]

\* os.makedirs(p, exist_ok=True): [exc, disk]
RECURSIVE Makedirs(_, _, _)
Makedirs(plat, disk, p) ==
    IF IsDirAt(plat, disk, p) THEN [exc |-> "", disk |-> disk]
    ELSE IF Get(disk, p).k # "absent" THEN [exc |-> "FileExistsError", disk |-> disk]
    ELSE Mkdir(plat, p, IF PathExists(plat, disk, Parent(plat, p))
                        THEN [exc |-> "", disk |-> disk]
                        ELSE Makedirs(plat, disk, Parent(plat, p)))

\* DirectoryFS.create
DirectoryFS_create(plat, disk, fs) == Makedirs(plat, disk, fs.path)

\* "with open(self.path, 'w') as archive: pass" once the directory was made
\* (up): the archive file is left empty
PackageFS_truncate(plat, fs, up) ==
    IF up.exc # "" THEN up ELSE File_open_write(plat, up.disk, fs.path, "")

\* PackageFS.create
PackageFS_create(plat, disk, fs) ==
    PackageFS_truncate(plat, fs, Makedirs(plat, disk, Parent(plat, fs.path)))

create(plat, disk, fs) ==
    IF fs.kind = "zip" THEN PackageFS_create(plat, disk, fs)
    ELSE DirectoryFS_create(plat, disk, fs)

\* re.search(suffix + '\Z', root, re.I)
EndsWithIgnoringCase(root, suffix) ==
    /\ Len(root) >= Len(suffix)
    /\ Lower(SubSeq(root, Len(root) - Len(suffix) + 1, Len(root))) = suffix

\* util.get_filesystem
get_filesystem(plat, root) ==
    IF EndsWithIgnoringCase(root, <<DOT, "z", "i", "p">>) THEN PackageFS(root)
    ELSE IF \/ EndsWithIgnoringCase(root, <<DOT, "y", "a", "m", "l">>)
            \/ EndsWithIgnoringCase(root, <<DOT, "y", "m", "l">>)
         THEN DirectoryFS(Parent(plat, root))
    ELSE DirectoryFS(root)

(***************************************************************************)
(* util.py: the sprite lookup                                              *)
(***************************************************************************)

TEXTUREATLAS == <<"T", "e", "x", "t", "u", "r", "e", "A", "t", "l", "a", "s">>
SUBTEXTURE == <<"S", "u", "b", "T", "e", "x", "t", "u", "r", "e">>
\* the path SpriteFinder.startElement compares with
SPRITE_PATH ==
    <<"s", "u", "b", "t", "e", "x", "t", "u", "r", "e", ".",
      "t", "e", "x", "t", "u", "r", "e", "a", "t", "l", "a", "s">>
IDLE_0 == <<"I", "d", "l", "e", "_", "0">>
idle_0 == <<"i", "d", "l", "e", "_", "0">>

\* SAX events: an element start carries its tag and its name attribute (a
\* Python value, PyNone when the element has none)
StartEl(tag, name) == [ev |-> "start", tag |-> tag, name |-> name]
EndEl(tag) == [ev |-> "end", tag |-> tag, name |-> PyNone]

\* The documents the model's sprite-map files hold, by their bytes:
\*   "ATLAS"    <TextureAtlas><SubTexture name="Idle_0"/></TextureAtlas>
\*   "LOWER"    <textureatlas><subtexture name="Idle_0"/></textureatlas>
\*   "NESTED"   <TextureAtlas><Group><SubTexture name="Idle_0"/></Group></TextureAtlas>
\*   "INVERTED" <SubTexture><TextureAtlas name="Idle_0"/></SubTexture>
\* Any other bytes are not XML.
XmlBytes == {"ATLAS", "LOWER", "NESTED", "INVERTED"}
GROUP == <<"G", "r", "o", "u", "p">>
DocOf(b) ==
    CASE b = "ATLAS" ->
           <<StartEl(TEXTUREATLAS, PyNone), StartEl(SUBTEXTURE, PyStr(IDLE_0)),
             EndEl(SUBTEXTURE), EndEl(TEXTUREATLAS)>>
      [] b = "LOWER" ->
           <<StartEl(Lower(TEXTUREATLAS), PyNone), StartEl(Lower(SUBTEXTURE), PyStr(IDLE_0)),
             EndEl(Lower(SUBTEXTURE)), EndEl(Lower(TEXTUREATLAS))>>
      [] b = "NESTED" ->
           <<StartEl(TEXTUREATLAS, PyNone), StartEl(GROUP, PyNone),
             StartEl(SUBTEXTURE, PyStr(IDLE_0)),
             EndEl(SUBTEXTURE), EndEl(GROUP), EndEl(TEXTUREATLAS)>>
      [] OTHER ->
           <<StartEl(SUBTEXTURE, PyNone), StartEl(TEXTUREATLAS, PyStr(IDLE_0)),
             EndEl(TEXTUREATLAS), EndEl(SUBTEXTURE)>>

\* SpriteFinder: startElement / endElement over the events of a document
RECURSIVE SpriteFinder(_, _, _, _)
SpriteFinder(events, target, stack, found) ==
    IF events = <<>> THEN found
    ELSE LET e == Head(events)
         IN  IF e.ev = "end"
             THEN SpriteFinder(Tail(events), target,
                               SubSeq(stack, 1, Len(stack) - 1), found)
             ELSE LET st == Append(stack, e.tag)
                      hit == /\ ~found
                             /\ Lower(Join(st, <<DOT>>)) = SPRITE_PATH
                             /\ e.name.t = "str"
                             /\ e.name.s = target
                  IN  SpriteFinder(Tail(events), target, st, found \/ hit)

\* parser.parse(file) and sprite_finder.found, with r the opened sprite map
parser_parse(r, sprite) ==
    IF r.exc # "" THEN [exc |-> r.exc, disk |-> r.disk, val |-> FALSE]
    ELSE IF r.bytes \notin XmlBytes
         THEN [exc |-> "SAXParseException", disk |-> r.disk, val |-> FALSE]
    ELSE [exc |-> "", disk |-> r.disk,
          val |-> SpriteFinder(DocOf(r.bytes), PyToStr(sprite), <<>>, FALSE)]

\* util.sprite_exists_in_map: [exc, disk, val]
sprite_exists_in_map(plat, disk, fs, sprite_map, sprite) ==
    parser_parse(open_read(plat, disk, fs, sprite_map), sprite)

(***************************************************************************)
(* manifest_v1.py: Context                                                 *)
(***************************************************************************)

Context(source_filesystem, target_filesystem) ==
    [source_filesystem |-> source_filesystem,
     target_filesystem |-> target_filesystem,
     errors |-> <<>>,
     warnings |-> <<>>]

\* an error message: its text, the paths or names it quotes, the filesystem
Msg(text, a, b, fs) == [text |-> text, a |-> a, b |-> b, fs |-> fs]
NoFS == [kind |-> "", path |-> <<>>]

add_error(ctx, msg) == [ctx EXCEPT !.errors = Append(@, msg)]

(***************************************************************************)
(* manifest_v1.py: the task variants                                       *)
(***************************************************************************)

FILE == <<"f", "i", "l", "e">>
SPRITE == <<"s", "p", "r", "i", "t", "e">>
WIDGET == <<"w", "i", "d", "g", "e", "t">>

\* A task object after __init__ (reset): every field of both variants, the
\* fields of the other variant staying None.
NewTask(cls, type) ==
    [cls |-> cls, type |-> type,
     name |-> PyNone, desc |-> PyNone, tags |-> {},
     source |-> PyNone, target |-> PyNone, require_target |-> TRUE,
     sprite_sheet |-> PyNone, sprite_map |-> PyNone, sprite |-> PyNone]

FileTask == NewTask("FileTask", FILE)
SpriteTask == NewTask("SpriteTask", SPRITE)
NoTask == NewTask("", <<>>)

\* ManifestNode.populate, after reset: name and desc
ManifestNode_populate(obj, source) ==
    [obj EXCEPT
       !.name = IF Has(source, "name")
                THEN PyStr(normalize_str(source.kv["name"], MAX_NAME_LENGTH))
                ELSE PyNone,
       !.desc = IF Has(source, "desc")
                THEN PyStr(normalize_str(source.kv["desc"], MAX_DESC_LENGTH))
                ELSE PyNone]

\* Task.add_tag over the tags of a node: each is normalized by populate,
\* stripped again and added to the set
RECURSIVE AddTags(_, _)
AddTags(tags, l) ==
    IF l = <<>> THEN tags
    ELSE AddTags(tags \cup {Strip(normalize_str(PyStr(Head(l)), MAX_TAG_LENGTH))},
                 Tail(l))

\* Task.populate after super().populate gave t0: the type check and the tags
Task_populate_tags(t0, source, tags) ==
    IF ~Has(source, "type") THEN [exc |-> "KeyError", task |-> t0]
    ELSE IF source.kv["type"] # PyStr(t0.type)
         THEN [exc |-> "ValueError", task |-> t0]
    ELSE [exc |-> "",
          task |-> [t0 EXCEPT !.tags =
                      CASE tags.t = "str" -> AddTags({}, <<tags.s>>)
                        [] tags.t = "list" -> AddTags({}, tags.l)
                        [] OTHER -> {}]]

\* Task.populate: [exc, task]; task is a freshly reset object of its class
Task_populate(task, source) ==
    Task_populate_tags(ManifestNode_populate(task, source), source,
                       IF Has(source, "tags") THEN source.kv["tags"] ELSE PyNone)

PathField(plat, source, key) ==
    IF Has(source, key) THEN PyStr(normalize_package_path(plat, source.kv[key]))
    ELSE PyNone

\* FileTask.populate after super().populate gave r
FileTask_populate_fields(plat, r, source) ==
    IF r.exc # "" THEN r
    ELSE [exc |-> "",
          task |-> [r.task EXCEPT
             !.source = PathField(plat, source, "source"),
             !.target = PathField(plat, source, "target"),
             !.require_target =
                 IF Has(source, "require_target")
                 THEN boolean(source.kv["require_target"]) ELSE TRUE]]

\* FileTask.populate: [exc, task]
FileTask_populate(plat, task, source) ==
    FileTask_populate_fields(plat, Task_populate(NewTask(task.cls, task.type), source),
                             source)

\* SpriteTask.populate after super().populate gave r
SpriteTask_populate_fields(plat, r, source) ==
    IF r.exc # "" THEN r
    ELSE [exc |-> "",
          task |-> [r.task EXCEPT
             !.source = PathField(plat, source, "source"),
             !.sprite_sheet = PathField(plat, source, "sprite_sheet"),
             !.sprite_map = PathField(plat, source, "sprite_map"),
             !.sprite =
                 IF Has(source, "sprite")
                 THEN PyStr(normalize_str(source.kv["sprite"], MAX_SPRITE_LENGTH))
                 ELSE PyNone]]

\* SpriteTask.populate: [exc, task]
SpriteTask_populate(plat, task, source) ==
    SpriteTask_populate_fields(plat, Task_populate(NewTask(task.cls, task.type), source),
                               source)

populate(plat, task, source) ==
    IF task.cls = "SpriteTask" THEN SpriteTask_populate(plat, task, source)
    ELSE FileTask_populate(plat, task, source)

\* list(self.__tags): the tags in some order
RECURSIVE SetToSeq(_)
SetToSeq(S) ==
    IF S = {} THEN <<>>
    ELSE LET x == CHOOSE y \in S : TRUE IN <<x>> \o SetToSeq(S \ {x})

\* FileTask.export / SpriteTask.export: the node
export(task) ==
    LET common == [name |-> task.name, desc |-> task.desc,
                   tags |-> PyList(SetToSeq(task.tags)),
                   type |-> PyStr(task.type)]
    IN  IF task.cls = "SpriteTask"
        THEN Dict([k \in {"name", "desc", "tags", "type", "source",
                          "sprite_sheet", "sprite_map", "sprite"} |->
                     IF k \in DOMAIN common THEN common[k] ELSE task[k]])
        ELSE Dict([k \in {"name", "desc", "tags", "type", "source", "target",
                          "require_target"} |->
                     IF k \in DOMAIN common THEN common[k]
                     ELSE IF k = "require_target" THEN PyBool(task.require_target)
                     ELSE task[k]])

\* Python truth values as the loops of Manifest see them
Truthy(r) == r = "True"
PyResult(b) == IF b THEN "True" ELSE "False"

SourceMissing(ctx, path) ==
    add_error(ctx, Msg("source file not present in source filesystem",
                       path, PyNone, ctx.source_filesystem))
TargetMissing(ctx, path) ==
    add_error(ctx, Msg("target file not present in target filesystem",
                       path, PyNone, ctx.target_filesystem))

\* FileTask.validate without the test of require_target: the target is looked
\* for whatever the task says
FileTask_checks_any_target(disk, ctx, task, s, t) ==
    LET c1 == IF s.val THEN ctx ELSE SourceMissing(ctx, task.source)
        c2 == IF t.val THEN c1 ELSE TargetMissing(c1, task.target)
    IN  IF s.exc # "" THEN [exc |-> s.exc, ctx |-> ctx, disk |-> disk, result |-> "False"]
        ELSE IF t.exc # ""
             THEN [exc |-> t.exc, ctx |-> c1, disk |-> disk, result |-> "False"]
        ELSE [exc |-> "", ctx |-> c2, disk |-> disk, result |-> PyResult(s.val /\ t.val)]

\* FileTask.validate, with s and t what file_exists gives for the source and
\* for the target (t is asked for only when require_target)
FileTask_checks(disk, ctx, task, s, t) ==
    LET c1 == IF s.val THEN ctx ELSE SourceMissing(ctx, task.source)
        c2 == IF t.val THEN c1 ELSE TargetMissing(c1, task.target)
    IN  IF s.exc # "" THEN [exc |-> s.exc, ctx |-> ctx, disk |-> disk, result |-> "False"]
        ELSE IF ~task.require_target
             THEN [exc |-> "", ctx |-> c1, disk |-> disk, result |-> PyResult(s.val)]
        ELSE IF t.exc # ""
             THEN [exc |-> t.exc, ctx |-> c1, disk |-> disk, result |-> "False"]
        ELSE [exc |-> "", ctx |-> c2, disk |-> disk, result |-> PyResult(s.val /\ t.val)]

\* FileTask.validate: [exc, ctx, disk, result]
FileTask_validate(plat, disk, ctx, task) ==
    FileTask_checks(disk, ctx, task,
                    file_exists(plat, disk, ctx.source_filesystem, task.source),
                    file_exists(plat, disk, ctx.target_filesystem, task.target))

\* shutil.copyfileobj(source, target) and the close of both, with r the opened
\* source and t the opened target: what is copied is what the source holds
\* once the target is open
CopyFile_copy(plat, sfs, spath, tfs, tpath, r, t) ==
    IF t.exc # "" THEN [exc |-> t.exc, disk |-> t.disk]
    ELSE open_write(plat, r.disk, tfs, tpath, open_read(plat, t.disk, sfs, spath).bytes)

\* with target_filesystem.open(target, 'wb') as target: ..., with r the opened
\* source. The target is created or truncated when it is opened.
CopyFile_target(plat, sfs, spath, tfs, tpath, r) ==
    IF r.exc # "" THEN [exc |-> r.exc, disk |-> r.disk]
    ELSE CopyFile_copy(plat, sfs, spath, tfs, tpath, r,
                       open_write(plat, r.disk, tfs, tpath, ""))

\* with source_filesystem.open(source, 'rb') as source:
\*     with target_filesystem.open(target, 'wb') as target:
\*         shutil.copyfileobj(source, target)
\* [exc, disk]
CopyFile(plat, disk, sfs, spath, tfs, tpath) ==
    CopyFile_target(plat, sfs, spath, tfs, tpath, open_read(plat, disk, sfs, spath))

Copied(v, c) == [exc |-> c.exc, ctx |-> v.ctx, disk |-> c.disk, result |-> "None"]

\* FileTask.apply without "if self.validate(context):"
FileTask_apply_unguarded(plat, disk, task, v) ==
    IF v.exc # "" THEN [v EXCEPT !.result = "None"]
    ELSE Copied(v, CopyFile(plat, disk, v.ctx.source_filesystem, task.source,
                            v.ctx.target_filesystem, task.target))

\* FileTask.apply after self.validate(context) gave v
FileTask_apply_validated(plat, disk, task, v) ==
    IF v.exc # "" THEN [v EXCEPT !.result = "None"]
    ELSE IF Truthy(v.result)
         THEN Copied(v, CopyFile(plat, disk, v.ctx.source_filesystem, task.source,
                                 v.ctx.target_filesystem, task.target))
    ELSE [exc |-> "", ctx |-> v.ctx, disk |-> disk, result |-> "None"]

\* FileTask.apply: [exc, ctx, disk, result]; it has no return statement
FileTask_apply(plat, disk, ctx, task) ==
    FileTask_apply_validated(plat, disk, task, FileTask_validate(plat, disk, ctx, task))

\* SpriteTask.validate, with what file_exists gives for the source (s), the
\* sprite sheet (sh) and the sprite map (mp), and what sprite_exists_in_map
\* gives (sp)
SpriteTask_checks(disk, ctx, task, s, sh, mp, sp) ==
    LET c1 == IF s.val THEN ctx ELSE SourceMissing(ctx, task.source)
        c2 == IF sh.val THEN c1
              ELSE add_error(c1, Msg("target sprite sheet not present in target filesystem",
                                     task.sprite_sheet, PyNone, ctx.target_filesystem))
        c3 == IF mp.val THEN c2
              ELSE add_error(c2, Msg("target sprite map not present in target filesystem",
                                     task.sprite_map, PyNone, ctx.target_filesystem))
        c4 == IF sp.val THEN c3
              ELSE add_error(c3, Msg("target sprite map does not contain the target sprite",
                                     task.sprite_map, task.sprite, NoFS))
    IN  IF s.exc # "" THEN [exc |-> s.exc, ctx |-> ctx, disk |-> disk, result |-> "False"]
        ELSE IF sh.exc # ""
             THEN [exc |-> sh.exc, ctx |-> c1, disk |-> disk, result |-> "False"]
        ELSE IF mp.exc # ""
             THEN [exc |-> mp.exc, ctx |-> c2, disk |-> disk, result |-> "False"]
        ELSE IF sp.exc # ""
             THEN [exc |-> sp.exc, ctx |-> c3, disk |-> sp.disk, result |-> "False"]
        ELSE [exc |-> "", ctx |-> c4, disk |-> sp.disk,
              result |-> PyResult(s.val /\ sh.val /\ mp.val /\ sp.val)]

\* SpriteTask.validate: [exc, ctx, disk, result]
SpriteTask_validate(plat, disk, ctx, task) ==
    SpriteTask_checks(disk, ctx, task,
        file_exists(plat, disk, ctx.source_filesystem, task.source),
        file_exists(plat, disk, ctx.target_filesystem, task.sprite_sheet),
        file_exists(plat, disk, ctx.target_filesystem, task.sprite_map),
        sprite_exists_in_map(plat, disk, ctx.target_filesystem,
                             task.sprite_map, task.sprite))

\* SpriteTask.apply: raise NotImplementedError
SpriteTask_apply(plat, disk, ctx, task) ==
    [exc |-> "NotImplementedError", ctx |-> ctx, disk |-> disk, result |-> "None"]

validate(plat, disk, ctx, task) ==
    IF task.cls = "SpriteTask" THEN SpriteTask_validate(plat, disk, ctx, task)
    ELSE FileTask_validate(plat, disk, ctx, task)

apply(plat, disk, ctx, task) ==
    IF task.cls = "SpriteTask" THEN SpriteTask_apply(plat, disk, ctx, task)
    ELSE FileTask_apply(plat, disk, ctx, task)

(***************************************************************************)
(* manifest_v1.py: TaskFactory                                             *)
(***************************************************************************)

\* TaskFactory.define_builtin_tasks: the registry, type tag -> class
BuiltinTasks == [k \in {FILE, SPRITE} |-> IF k = FILE THEN "FileTask" ELSE "SpriteTask"]

\* TaskFactory.build: [exc, task]
build(taskmap, task_type) ==
    IF task_type.t = "list" THEN [exc |-> "TypeError", task |-> NoTask]
    ELSE IF task_type.t # "str" \/ task_type.s \notin DOMAIN taskmap
         THEN [exc |-> "ValueError", task |-> NoTask]
    ELSE [exc |-> "", task |-> NewTask(taskmap[task_type.s], task_type.s)]

\* task.populate(task_node) on the task build gave (b)
populate_built(plat, b, task_node) ==
    IF b.exc # "" THEN b ELSE populate(plat, b.task, task_node)

\* build_from_node without the test for the type key: the node's type is
\* looked up unchecked
build_from_node_unchecked(plat, taskmap, task_node) ==
    IF ~task_node.isdict THEN [exc |-> "TypeError", task |-> NoTask]
    ELSE IF ~Has(task_node, "type") THEN [exc |-> "KeyError", task |-> NoTask]
    ELSE populate_built(plat, build(taskmap, task_node.kv["type"]), task_node)

\* TaskFactory.build_from_node: [exc, task]
build_from_node(plat, taskmap, task_node) ==
    IF ~task_node.isdict THEN [exc |-> "TypeError", task |-> NoTask]
    ELSE IF ~Has(task_node, "type") THEN [exc |-> "ValueError", task |-> NoTask]
    ELSE populate_built(plat, build(taskmap, task_node.kv["type"]), task_node)

\* the classes derived from Task (issubclass(task_class, Task))
TaskClasses == {"FileTask", "SpriteTask"}

\* TaskFactory.define_task: [exc, taskmap]
define_task(taskmap, task_type, task_class) ==
    IF task_type.t # "str" \/ Len(task_type.s) = 0
    THEN [exc |-> "ValueError", taskmap |-> taskmap]
    ELSE IF task_class \notin TaskClasses
         THEN [exc |-> "TypeError", taskmap |-> taskmap]
    ELSE [exc |-> "",
          taskmap |-> [k \in DOMAIN taskmap \cup {task_type.s} |->
                         IF k = task_type.s THEN task_class ELSE taskmap[k]]]

\* TaskFactory.remove_task: "del self__taskmap[task_type]" names a variable
\* that no scope defines
remove_task(taskmap, task_type) == [exc |-> "NameError", taskmap |-> taskmap]

(***************************************************************************)
(* manifest_v1.py: Manifest                                                *)
(***************************************************************************)

UNKNOWN == <<"u", "n", "k", "n", "o", "w", "n">>

\* ModPackage.__manifest: None, or a Manifest object
NoManifest ==
    [set |-> FALSE, name |-> PyNone, desc |-> PyNone, author |-> PyNone, tasks |-> <<>>]
\* Manifest.__init__ (reset)
NewManifest ==
    [set |-> TRUE, name |-> PyNone, desc |-> PyNone, author |-> PyStr(UNKNOWN),
     tasks |-> <<>>]

\* A manifest document as yaml.safe_load returns it: a dict with the scalar
\* keys in kv; the tasks key, when has_tasks, holds the list tasks of task
\* nodes, or some value that is no list (tasks_is_list = FALSE).
ManifestDoc(kv, has_tasks, tasks_is_list, tasks) ==
    [isdict |-> TRUE, kv |-> kv, has_tasks |-> has_tasks,
     tasks_is_list |-> tasks_is_list, tasks |-> tasks]
NotADoc ==
    [isdict |-> FALSE, kv |-> <<>>, has_tasks |-> FALSE, tasks_is_list |-> FALSE,
     tasks |-> <<>>]

\* self.add_task(b), b what build_from_node gave: st = [exc, m]
add_task(st, b) ==
    IF b.exc # "" THEN [st EXCEPT !.exc = b.exc]
    ELSE [st EXCEPT !.m.tasks = Append(@, b.task)]

\* for task_node in source[TASKS_KEY]: self.add_task(build_from_node(task_node))
RECURSIVE AddTasks(_, _, _, _)
AddTasks(plat, taskmap, nodes, st) ==
    IF nodes = <<>> \/ st.exc # "" THEN st
    ELSE AddTasks(plat, taskmap, Tail(nodes),
                  add_task(st, build_from_node(plat, taskmap, Head(nodes))))

\* Manifest.populate after super().populate gave m1: the author and the tasks
Manifest_populate_tasks(plat, taskmap, m2, source) ==
    IF ~source.has_tasks THEN [exc |-> "", m |-> m2]
    ELSE IF ~source.tasks_is_list THEN [exc |-> "TypeError", m |-> m2]
    ELSE AddTasks(plat, taskmap, source.tasks, [exc |-> "", m |-> m2])

Manifest_populate_author(m1, source) ==
    IF Has(source, "author")
    THEN [m1 EXCEPT !.author =
            PyStr(normalize_str(source.kv["author"], MAX_AUTHOR_LENGTH))]
    ELSE m1

\* Manifest.populate: [exc, m], m the Manifest object as the call leaves it
Manifest_populate(plat, taskmap, m, source) ==
    IF ~source.isdict THEN [exc |-> "TypeError", m |-> m]
    ELSE Manifest_populate_tasks(plat, taskmap,
             Manifest_populate_author(ManifestNode_populate(NewManifest, source), source),
             source)

\* one turn of a loop of Manifest over its tasks: r is what the task's
\* validate or apply gave
Visited(st, i, r) ==
    [exc |-> r.exc, ctx |-> r.ctx, disk |-> r.disk, result |-> r.result,
     visited |-> Append(st.visited, i)]

\* Manifest.validate: the loop "result = result and task.validate(context)".
\* st = [exc, ctx, disk, result, visited]; visited lists the tasks whose
\* validate was invoked.
RECURSIVE ValidateTasks(_, _, _, _)
ValidateTasks(plat, tasks, i, st) ==
    IF i > Len(tasks) \/ st.exc # "" THEN st
    ELSE IF ~Truthy(st.result) THEN ValidateTasks(plat, tasks, i + 1, st)
    ELSE ValidateTasks(plat, tasks, i + 1,
                       Visited(st, i, validate(plat, st.disk, st.ctx, tasks[i])))

Manifest_validate(plat, disk, ctx, m) ==
    ValidateTasks(plat, m.tasks, 1,
        [exc |-> "", ctx |-> ctx, disk |-> disk, result |-> "True", visited |-> <<>>])

\* Manifest.apply: the loop "result = result and task.apply(context)"
RECURSIVE ApplyTasks(_, _, _, _)
ApplyTasks(plat, tasks, i, st) ==
    IF i > Len(tasks) \/ st.exc # "" THEN st
    ELSE IF ~Truthy(st.result) THEN ApplyTasks(plat, tasks, i + 1, st)
    ELSE ApplyTasks(plat, tasks, i + 1,
                    Visited(st, i, apply(plat, st.disk, st.ctx, tasks[i])))

Manifest_apply(plat, disk, ctx, m) ==
    ApplyTasks(plat, m.tasks, 1,
        [exc |-> "", ctx |-> ctx, disk |-> disk, result |-> "True", visited |-> <<>>])

(***************************************************************************)
(* manifest_v1.py: ModPackage                                              *)
(***************************************************************************)

MANIFEST_FILENAME ==
    <<"m", "a", "n", "i", "f", "e", "s", "t", "_", "v", "1", ".", "y", "a", "m", "l">>

\* the bytes of a manifest file; yaml.safe_load of them gives the document
\* of the run, and of any other bytes a value that is no dict
MANIFEST_BYTES == "MANIFEST"

\* self.__manifest = Manifest(self); self.__manifest.populate(manifest_node)
ModPackage_populate(r, pop) == [exc |-> pop.exc, disk |-> r.disk, manifest |-> pop.m]

\* with self.source_filesystem.open(MANIFEST_FILENAME, 'r') as manifest_file: ...
\* with r the opened manifest file
ModPackage_load(plat, taskmap, m, doc, r) ==
    IF r.exc # "" THEN [exc |-> r.exc, disk |-> r.disk, manifest |-> m]
    ELSE ModPackage_populate(r,
             Manifest_populate(plat, taskmap, NewManifest,
                               IF r.bytes = MANIFEST_BYTES THEN doc ELSE NotADoc))

\* ModPackage.read_from_filesystem after the check that the filesystem exists,
\* with fe what file_exists gave for the manifest
ModPackage_read(plat, disk, taskmap, fs, m, doc, fe) ==
    IF fe.exc # "" THEN [exc |-> fe.exc, disk |-> disk, manifest |-> m]
    ELSE IF ~fe.val THEN [exc |-> "RuntimeError", disk |-> disk, manifest |-> m]
    ELSE ModPackage_load(plat, taskmap, m, doc,
                         open_read(plat, disk, fs, PyStr(MANIFEST_FILENAME)))

\* ModPackage.read_from_filesystem: [exc, disk, manifest]
ModPackage_read_from_filesystem(plat, disk, taskmap, fs, m, doc) ==
    IF ~FileSystem_exists(plat, disk, fs)
    THEN [exc |-> "RuntimeError", disk |-> disk, manifest |-> m]
    ELSE ModPackage_read(plat, disk, taskmap, fs, m, doc,
                         file_exists(plat, disk, fs, PyStr(MANIFEST_FILENAME)))

\* what a call leaves behind for its caller: the exception raised ("" for a
\* normal return), the Context returned, the tasks the manifest invoked
Outcome(op, exc, ctx, visited, result) ==
    [op |-> op, exc |-> exc, errors |-> ctx.errors, warnings |-> ctx.warnings,
     visited |-> visited, result |-> result]

\* ModPackage.validate: [exc, ctx, disk, result, visited]
ModPackage_validate(plat, disk, source_filesystem, m, target_filesystem) ==
    IF ~m.set
    THEN [exc |-> "AttributeError", ctx |-> Context(source_filesystem, target_filesystem),
          disk |-> disk, result |-> "None", visited |-> <<>>]
    ELSE Manifest_validate(plat, disk, Context(source_filesystem, target_filesystem), m)

\* ModPackage.apply: [exc, ctx, disk, result, visited]
ModPackage_apply(plat, disk, source_filesystem, m, target_filesystem) ==
    IF ~m.set
    THEN [exc |-> "AttributeError", ctx |-> Context(source_filesystem, target_filesystem),
          disk |-> disk, result |-> "None", visited |-> <<>>]
    ELSE Manifest_apply(plat, disk, Context(source_filesystem, target_filesystem), m)

\* Manifest.list_resources: the source of every task, in manifest order
list_resources(m) == [i \in 1..Len(m.tasks) |-> m.tasks[i].source]

\* the bytes yaml.safe_dump writes for manifest.export(): yaml.safe_load of
\* them gives back what was exported
EXPORT_BYTES == "EXPORT"

\* yaml.safe_dump(manifest_data, file) on the manifest file opened for
\* writing: the serialisation is written through to the file
yaml_safe_dump(plat, disk, fs, path) == open_write(plat, disk, fs, path, EXPORT_BYTES)

\* the loop "for resource in self.manifest.list_resources()": st = [exc, disk]
RECURSIVE CopyResources(_, _, _, _, _)
CopyResources(plat, sfs, tfs, resources, st) ==
    IF resources = <<>> \/ st.exc # "" THEN st
    ELSE CopyResources(plat, sfs, tfs, Tail(resources),
                       CopyFile(plat, st.disk, sfs, Head(resources), tfs, Head(resources)))

\* write_to_filesystem once the manifest file was opened for writing (w):
\* export() of a manifest that was never read raises
ModPackage_write_manifest(plat, sfs, m, tfs, w) ==
    IF w.exc # "" THEN w
    ELSE IF ~m.set THEN [exc |-> "AttributeError", disk |-> w.disk]
    ELSE CopyResources(plat, sfs, tfs, list_resources(m),
                       yaml_safe_dump(plat, w.disk, tfs, PyStr(MANIFEST_FILENAME)))

\* write_to_filesystem once the target was created (c)
ModPackage_write(plat, sfs, m, tfs, c) ==
    IF c.exc # "" THEN c
    ELSE ModPackage_write_manifest(plat, sfs, m, tfs,
             open_write(plat, c.disk, tfs, PyStr(MANIFEST_FILENAME), ""))

\* ModPackage.write_to_filesystem: [exc, disk]
ModPackage_write_to_filesystem(plat, disk, sfs, m, tfs) ==
    ModPackage_write(plat, sfs, m, tfs, create(plat, disk, tfs))

(***************************************************************************)
(* The state                                                               *)
(***************************************************************************)

VARIABLES
    platform,     \* "posix" or "nt": which os.path the program runs on
    disk,         \* the host filesystem
    source_fs,    \* ModPackage.source_filesystem
    target_fs,    \* the filesystem validate and apply are called with
    taskmap,      \* TaskFactory.__taskmap
    yaml_doc,     \* what yaml.safe_load gives for the package's manifest file
    manifest,     \* ModPackage.__manifest
    last,         \* the outcome of the last call
    napply,       \* how many times apply was called
    task_node,    \* the node a task is built from
    task,         \* the task built from it
    exported,     \* task.export()
    reexported,   \* the export of a task of that class populated from exported
    path,         \* a path as a manifest gives it
    normalized,   \* util.normalize_package_path(path)
    located,      \* where a filesystem looks for the normalized path
    sprite_name,  \* the sprite a lookup asks for
    written,      \* what was written through a filesystem: [name, bytes, mode]
    calls,        \* the calls made on a TaskFactory: [op, tag, cls, exc]
    run           \* a run of mmapply.main: where it is, its packages, its exit

packageVars == <<disk, source_fs, target_fs, taskmap, yaml_doc, manifest, napply>>
taskVars == <<task_node, task, exported, reexported>>
pathVars == <<path, normalized, located>>
fsVars == <<sprite_name, written>>
toolVars == <<calls, run>>

vars ==
    <<platform, disk, source_fs, target_fs, taskmap, yaml_doc, manifest, last, napply,
      task_node, task, exported, reexported, path, normalized, located,
      sprite_name, written, calls, run>>

(***************************************************************************)
(* The inputs of the package runs                                          *)
(***************************************************************************)

MaxTasks == 2
\* apply calls in one run (an archive target grows with every apply)
MaxApply == 2

NameA == <<"a">>
NameB == <<"b">>
NameSheet == <<"h">>
NameMap == <<"m">>

\* host paths of the roots: /s and /t are directories, /p and /g archives
HostPath(plat, name) ==
    IF plat = "nt" THEN <<"C", COLON, BSLASH>> \o name ELSE <<SLASH>> \o name
SourceRoot(plat, kind) == HostPath(plat, IF kind = "zip" THEN <<"p">> ELSE <<"s">>)
TargetRoot(plat, kind) == HostPath(plat, IF kind = "zip" THEN <<"g">> ELSE <<"t">>)

MkFS(kind, root) == IF kind = "zip" THEN PackageFS(root) ELSE DirectoryFS(root)

\* a filesystem of the given kind at root holding the files (a function from
\* root-relative names to bytes), as entries of the host filesystem
Populated(plat, kind, root, files) ==
    IF kind = "zip"
    THEN [p \in {root} |->
            ZipEntry("", [i \in 1..Len(SetToSeq(DOMAIN files)) |->
                            Member(SetToSeq(DOMAIN files)[i],
                                   files[SetToSeq(DOMAIN files)[i]])])]
    ELSE [p \in {root} \cup {root \o <<Sep(plat)>> \o n : n \in DOMAIN files} |->
            IF p = root THEN DirEntry
            ELSE FileEntry(files[SubSeq(p, Len(root) + 2, Len(p))])]

Merge(f, g) == [x \in (DOMAIN f) \cup (DOMAIN g) |-> IF x \in DOMAIN f THEN f[x] ELSE g[x]]

\* the task nodes a manifest document of the runs is made of
FileNode(source, target) ==
    Dict([k \in {"type", "source", "target"} |->
            IF k = "type" THEN PyStr(FILE)
            ELSE IF k = "source" THEN PyStr(source) ELSE PyStr(target)])
NewFileNode(source, target) ==
    Dict([k \in {"type", "source", "target", "require_target"} |->
            IF k = "type" THEN PyStr(FILE)
            ELSE IF k = "source" THEN PyStr(source)
            ELSE IF k = "target" THEN PyStr(target) ELSE PyStr(<<"n", "o">>)])
SpriteNode(source, sheet, map, sprite) ==
    Dict([k \in {"type", "source", "sprite_sheet", "sprite_map", "sprite"} |->
            CASE k = "type" -> PyStr(SPRITE)
              [] k = "source" -> PyStr(source)
              [] k = "sprite_sheet" -> PyStr(sheet)
              [] k = "sprite_map" -> PyStr(map)
              [] OTHER -> PyStr(sprite)])
WidgetNode == Dict([k \in {"type"} |-> PyStr(WIDGET)])

TaskNodes ==
    {FileNode(NameA, NameA), FileNode(NameB, NameB), NewFileNode(NameB, <<"n">>),
     SpriteNode(NameA, NameSheet, NameMap, IDLE_0), WidgetNode}

RECURSIVE SeqsUpTo(_, _)
SeqsUpTo(S, n) ==
    IF n = 0 THEN {<<>>}
    ELSE LET shorter == SeqsUpTo(S, n - 1)
         IN  shorter \cup {Append(q, x) : q \in {r \in shorter : Len(r) = n - 1}, x \in S}

ManifestDocs ==
    {ManifestDoc(<<>>, TRUE, TRUE, nodes) : nodes \in SeqsUpTo(TaskNodes, MaxTasks)}

\* the files of the source: the manifest, and none of a, b, or a, or both
SourceFiles ==
    {[n \in {MANIFEST_FILENAME} \cup have |->
        IF n = MANIFEST_FILENAME THEN MANIFEST_BYTES
        ELSE IF n = NameA THEN "X" ELSE "Y"] : have \in {{}, {NameA}, {NameA, NameB}}}

\* the files of the target: some of a, b (old bytes), a sprite sheet, a sprite map
TargetFiles ==
    {[n \in have |->
        CASE n = NameMap -> "ATLAS"
          [] n = NameSheet -> "SHEET"
          [] OTHER -> "OLD"] :
       have \in {{}, {NameA}, {NameA, NameB}, {NameA, NameSheet},
                 {NameA, NameSheet, NameMap}}}
    \cup {[n \in {NameSheet, NameMap} |-> IF n = NameMap THEN "INVERTED" ELSE "SHEET"]}

NoOutcome == Outcome("", "", Context(NoFS, NoFS), <<>>, "None")

\* what the target root holds: a filesystem with some files, or, where an
\* archive is expected, nothing, an empty file or a file that is no archive
TargetDisks(plat, kind) ==
    {Populated(plat, kind, TargetRoot(plat, kind), tf) : tf \in TargetFiles}
    \cup (IF kind = "zip"
          THEN {<<>>,
                [p \in {TargetRoot(plat, kind)} |-> FileEntry("")],
                [p \in {TargetRoot(plat, kind)} |-> FileEntry("OLD")]}
          ELSE {})

NoTaskRun ==
    /\ task_node = NotADict
    /\ task = NoTask
    /\ exported = NotADict
    /\ reexported = NotADict

NoFsRun ==
    /\ sprite_name = PyNone
    /\ written = <<>>

\* main has not started
NoRun ==
    [pc |-> "", i |-> 0, packages |-> <<>>, validate_only |-> FALSE, exit |-> "",
     started_on |-> <<>>]

NoToolRun ==
    /\ calls = <<>>
    /\ run = NoRun

NoPathRun ==
    /\ path = <<>>
    /\ normalized = PyNone
    /\ located = PyNone

Init ==
    /\ platform \in {"posix", "nt"}
    /\ \E sk \in {"dir", "zip"}, tk \in {"dir", "zip"} :
         /\ source_fs = MkFS(sk, SourceRoot(platform, sk))
         /\ target_fs = MkFS(tk, TargetRoot(platform, tk))
         /\ \E sf \in SourceFiles, td \in TargetDisks(platform, tk) :
              disk = Merge(Populated(platform, sk, SourceRoot(platform, sk), sf), td)
    /\ taskmap = BuiltinTasks
    /\ yaml_doc \in ManifestDocs
    /\ manifest = NoManifest
    /\ last = NoOutcome
    /\ napply = 0
    /\ NoTaskRun
    /\ NoPathRun
    /\ NoFsRun
    /\ NoToolRun

\* the caller's view of a finished validate or apply
Returned(op, r) == Outcome(op, r.exc, r.ctx, r.visited, r.result)

ReadDone(r) ==
    /\ manifest' = r.manifest
    /\ disk' = r.disk
    /\ last' = Outcome("read", r.exc, Context(NoFS, NoFS), <<>>, "None")
    /\ UNCHANGED <<platform, source_fs, target_fs, taskmap, yaml_doc, napply>>
    /\ UNCHANGED <<taskVars, pathVars, fsVars, toolVars>>

\* package.read_from_filesystem()
ReadFromFilesystem ==
    ReadDone(ModPackage_read_from_filesystem(platform, disk, taskmap, source_fs,
                                             manifest, yaml_doc))

\* validate on a Context that is kept from call to call instead of made anew
ValidateDone_kept_context(r) ==
    /\ disk' = r.disk
    /\ last' = Outcome("validate", r.exc,
                       [r.ctx EXCEPT !.errors = last.errors \o @,
                                     !.warnings = last.warnings \o @],
                       r.visited, r.result)
    /\ UNCHANGED <<platform, source_fs, target_fs, taskmap, yaml_doc, manifest, napply>>
    /\ UNCHANGED <<taskVars, pathVars, fsVars, toolVars>>

ValidateDone(r) ==
    /\ disk' = r.disk
    /\ last' = Returned("validate", r)
    /\ UNCHANGED <<platform, source_fs, target_fs, taskmap, yaml_doc, manifest, napply>>
    /\ UNCHANGED <<taskVars, pathVars, fsVars, toolVars>>

\* package.validate(target_fs)
Validate ==
    ValidateDone(ModPackage_validate(platform, disk, source_fs, manifest, target_fs))

ApplyDone(r) ==
    /\ napply' = napply + 1
    /\ disk' = r.disk
    /\ last' = Returned("apply", r)
    /\ UNCHANGED <<platform, source_fs, target_fs, taskmap, yaml_doc, manifest>>
    /\ UNCHANGED <<taskVars, pathVars, fsVars, toolVars>>

\* package.apply(target_fs)
Apply ==
    /\ napply < MaxApply
    /\ ApplyDone(ModPackage_apply(platform, disk, source_fs, manifest, target_fs))

Next == ReadFromFilesystem \/ Validate \/ Apply

Spec == Init /\ [][Next]_vars

(***************************************************************************)
(* Properties of the package runs                                          *)
(***************************************************************************)

\* the positions 1..n of a manifest's tasks, in manifest order
Positions(m) == [i \in 1..Len(m.tasks) |-> i]

\* the bytes a filesystem gives for a path ("?" when it cannot be read)
Content(plat, d, fs, p) ==
    IF open_read(plat, d, fs, p).exc = "" THEN open_read(plat, d, fs, p).bytes ELSE "?"

\* C1: a validate of the package that returns has invoked validate on every
\* task of the manifest, in manifest order, and the Context it returns holds
\* every error that the validate of each task reports, whatever the earlier
\* tasks reported.
C1_ValidateVisitsEveryTask ==
    [][(Validate /\ manifest.set /\ last'.exc = "") =>
         /\ last'.visited = Positions(manifest)
         /\ \A i \in 1..Len(manifest.tasks) :
              LET own == validate(platform, disk, Context(source_fs, target_fs),
                                  manifest.tasks[i]).ctx.errors
              IN  \A k \in 1..Len(own) :
                    \E j \in 1..Len(last'.errors) : last'.errors[j] = own[k]]_vars

\* C2: an apply of the package that returns has invoked apply on every task of
\* the manifest, in manifest order, each exactly once, also after a task that
\* logged errors or returned a result that is not true.
C2_ApplyVisitsEveryTask ==
    [][(Apply /\ manifest.set /\ last'.exc = "") =>
         last'.visited = Positions(manifest)]_vars

\* C3: when the manifest holds only file tasks and validate of the package
\* reports no error in the current state, an apply returns a Context without
\* errors and leaves, for every task, the target's content at the task's
\* target equal to the source's content at the task's source.
C3_ApplyCopiesEveryTask ==
    [][(/\ Apply
        /\ manifest.set
        /\ \A i \in 1..Len(manifest.tasks) : manifest.tasks[i].cls = "FileTask"
        /\ ModPackage_validate(platform, disk, source_fs, manifest, target_fs).exc = ""
        /\ ModPackage_validate(platform, disk, source_fs, manifest,
                               target_fs).ctx.errors = <<>>) =>
         /\ last'.exc = ""
         /\ last'.errors = <<>>
         /\ \A i \in 1..Len(manifest.tasks) :
              /\ open_read(platform, disk', target_fs, manifest.tasks[i].target).exc = ""
              /\ Content(platform, disk', target_fs, manifest.tasks[i].target)
                   = Content(platform, disk', source_fs, manifest.tasks[i].source)]_vars

\* C4: when the validation of a file task fails (it returns false), the apply
\* of that task writes nothing: the host filesystem is as before, no exception
\* is raised and the Context holds exactly the errors of that validation, of
\* which there is at least one. The first task of a manifest is the one that
\* Manifest.apply always applies.
C4_FailedValidationSkipsCopy ==
    [][(/\ Apply
        /\ manifest.set
        /\ Len(manifest.tasks) > 0
        /\ manifest.tasks[1].cls = "FileTask"
        /\ FileTask_validate(platform, disk, Context(source_fs, target_fs),
                             manifest.tasks[1]).exc = ""
        /\ FileTask_validate(platform, disk, Context(source_fs, target_fs),
                             manifest.tasks[1]).result = "False") =>
         /\ disk' = disk
         /\ last'.exc = ""
         /\ last'.errors # <<>>
         /\ last'.errors = FileTask_validate(platform, disk, Context(source_fs, target_fs),
                                             manifest.tasks[1]).ctx.errors]_vars

\* an apply returned normally with errors in its Context after applying the
\* file task at the head of the manifest
C4_Witness ==
    /\ last.op = "apply"
    /\ last.exc = ""
    /\ last.errors # <<>>
    /\ last.visited = <<1>>
    /\ manifest.tasks[1].cls = "FileTask"

\* C5: validate of the package leaves the host filesystem, and so the source
\* and the target filesystem, exactly as it found it, for every manifest and
\* every state of source and target, whether it returns or raises.
C5_ValidateReadOnly ==
    [][Validate => disk' = disk]_vars

\* a validate that returned after the validate of a sprite task went through
\* the sprite map of an archive target, which is opened in append mode
C5_Witness ==
    /\ last.op = "validate"
    /\ last.exc = ""
    /\ target_fs.kind = "zip"
    /\ \E k \in 1..Len(last.visited) : manifest.tasks[last.visited[k]].cls = "SpriteTask"

\* C6: validate of a package whose first task is a sprite task with a missing
\* source, sprite sheet or sprite map, on filesystems that are in order, does
\* not raise: it returns with errors in the Context and a false result.
C6_SpriteValidateNeverRaises ==
    [][(/\ Validate
        /\ manifest.set
        /\ Len(manifest.tasks) > 0
        /\ manifest.tasks[1].cls = "SpriteTask"
        /\ target_fs.kind = "zip" => Get(disk, target_fs.path).k = "zipfile"
        /\ \/ ~file_exists(platform, disk, source_fs, manifest.tasks[1].source).val
           \/ ~file_exists(platform, disk, target_fs, manifest.tasks[1].sprite_sheet).val
           \/ ~file_exists(platform, disk, target_fs, manifest.tasks[1].sprite_map).val) =>
         /\ last'.exc = ""
         /\ last'.result = "False"
         /\ last'.errors # <<>>]_vars

\* C7: an apply of a package whose manifest holds a sprite task, at whatever
\* position, does not return normally.
C7_SpriteApplyAlwaysFails ==
    [][(/\ Apply
        /\ manifest.set
        /\ \E i \in 1..Len(manifest.tasks) : manifest.tasks[i].cls = "SpriteTask") =>
         last'.exc # ""]_vars

\* C8: reading a manifest with a node of an unregistered type, at whatever
\* position, fails, and the package is left without a task in its manifest.
C8_UnknownTypeNothingBuilt ==
    [][(/\ ReadFromFilesystem
        /\ \E i \in 1..Len(yaml_doc.tasks) :
             yaml_doc.tasks[i].kv["type"].s \notin DOMAIN taskmap) =>
         /\ last'.exc # ""
         /\ manifest'.set => manifest'.tasks = <<>>]_vars

\* C19: every validate and apply of the package works on a Context of its
\* own: a validate right after a validate, nothing having changed, returns
\* the same errors and warnings; and every error or warning in the Context of
\* a validate or apply that follows another call is one that the validate of
\* some task of the manifest reports on a Context of its own.
C19_FreshContextPerCall ==
    [][/\ (Validate /\ last.op = "validate" /\ last.exc = "") =>
           /\ last'.exc = ""
           /\ last'.errors = last.errors
           /\ last'.warnings = last.warnings
       /\ ((Validate \/ Apply) /\ last.op \in {"validate", "apply"} /\ manifest.set) =>
           /\ \A k \in 1..Len(last'.errors) :
                \E i \in 1..Len(manifest.tasks) :
                  \E j \in 1..Len(validate(platform, disk, Context(source_fs, target_fs),
                                           manifest.tasks[i]).ctx.errors) :
                    validate(platform, disk, Context(source_fs, target_fs),
                             manifest.tasks[i]).ctx.errors[j] = last'.errors[k]
           /\ last'.warnings = <<>>]_vars

\* a validate has returned errors after the package was applied
C19_Witness ==
    /\ last.op = "validate"
    /\ last.exc = ""
    /\ last.errors # <<>>
    /\ napply > 0

\* the errors the rules of a file task call for: one for a source that the
\* source filesystem does not hold, then one for a target that the target
\* filesystem does not hold when the task requires its target
RuleErrors(plat, d, sfs, tfs, t) ==
    (IF file_exists(plat, d, sfs, t.source).val THEN <<>>
     ELSE <<Msg("source file not present in source filesystem", t.source, PyNone, sfs)>>)
    \o (IF t.require_target /\ ~file_exists(plat, d, tfs, t.target).val
        THEN <<Msg("target file not present in target filesystem", t.target, PyNone, tfs)>>
        ELSE <<>>)

\* C13: validate of a package whose only task is a file task, on filesystems
\* that can be looked into, returns with exactly one error per violated rule
\* and passes exactly when no rule is violated: one error quoting the source
\* when the source filesystem lacks it, one error quoting the target path when
\* require_target is true and the target filesystem lacks it, and no error
\* for an absent target when require_target is false.
C13_OneErrorPerViolatedRule ==
    [][(/\ Validate
        /\ manifest.set
        /\ Len(manifest.tasks) = 1
        /\ manifest.tasks[1].cls = "FileTask"
        /\ file_exists(platform, disk, source_fs, manifest.tasks[1].source).exc = ""
        /\ file_exists(platform, disk, target_fs, manifest.tasks[1].target).exc = "") =>
         /\ last'.exc = ""
         /\ last'.errors = RuleErrors(platform, disk, source_fs, target_fs, manifest.tasks[1])
         /\ (last'.result = "True") <=> (last'.errors = <<>>)]_vars

\* a validate of a lone file task that does not require its target returned
\* without error although the target filesystem lacks the target
C13_Witness ==
    /\ last.op = "validate"
    /\ last.exc = ""
    /\ last.errors = <<>>
    /\ last.result = "True"
    /\ manifest.set
    /\ Len(manifest.tasks) = 1
    /\ manifest.tasks[1].cls = "FileTask"
    /\ ~manifest.tasks[1].require_target
    /\ file_exists(platform, disk, target_fs, manifest.tasks[1].target).exc = ""
    /\ ~file_exists(platform, disk, target_fs, manifest.tasks[1].target).val

\* what the apply of the first task of the manifest gives on a Context of
\* its own
FirstApplied ==
    apply(platform, disk, Context(source_fs, target_fs), manifest.tasks[1])

\* C21: apply is not atomic: when the first task of the manifest is a file
\* task that is copied and the apply of the second task then fails with an
\* exception, the apply of the package fails with that exception, the target
\* holds at the first task's target the content of its source, and the
\* targets of the second and later tasks hold what they held before: nothing
\* is rolled back.
C21_ApplyNotAtomic ==
    [][(/\ Apply
        /\ manifest.set
        /\ Len(manifest.tasks) >= 2
        /\ manifest.tasks[1].cls = "FileTask"
        /\ FirstApplied.exc = ""
        /\ FirstApplied.ctx.errors = <<>>
        /\ apply(platform, FirstApplied.disk, FirstApplied.ctx, manifest.tasks[2]).exc # "") =>
         /\ last'.exc = apply(platform, FirstApplied.disk, FirstApplied.ctx,
                              manifest.tasks[2]).exc
         /\ Content(platform, disk', target_fs, manifest.tasks[1].target)
              = Content(platform, disk, source_fs, manifest.tasks[1].source)
         /\ \A i \in 2..Len(manifest.tasks) :
              (/\ manifest.tasks[i].cls = "FileTask"
               /\ manifest.tasks[i].target # manifest.tasks[1].target) =>
                 Content(platform, disk', target_fs, manifest.tasks[i].target)
                   = Content(platform, disk, target_fs, manifest.tasks[i].target)]_vars

(***************************************************************************)
(* The task runs: a task is built from a node and exported, and a task of  *)
(* the same class is populated from that export and exported again         *)
(***************************************************************************)

Repeat(c, n) == [i \in 1..n |-> c]

\* a key the node does not have
Omitted == [t |-> "omitted", s |-> <<>>, l |-> <<>>]
MkNode(fields) == Dict([k \in {f \in DOMAIN fields : fields[f] # Omitted} |-> fields[k]])

NodeNames ==
    {Omitted, PyStr(<<"a">>), PyStr(<<SPACE, "a", SPACE>>),
     PyStr(Repeat("a", MAX_NAME_LENGTH - 1) \o <<SPACE, "b">>)}
NodeDescs == {Omitted, PyStr(<<"d">>)}
NodeTags ==
    {Omitted, PyStr(<<"x">>), PyList(<<<<"x">>, <<"y">>>>), PyList(<<<<SPACE, "x">>, <<"x">>>>)}
NodePaths ==
    {Omitted, PyStr(<<"a">>), PyStr(<<"a", BSLASH, "b", SLASH, DOT, DOT, SLASH, "c">>),
     PyStr(Repeat("a", MAX_PATH_LENGTH))}

FileTaskNodes ==
    {MkNode([type |-> PyStr(FILE), name |-> n, desc |-> d, tags |-> g,
             source |-> src, target |-> tgt]) :
       n \in NodeNames, d \in NodeDescs, g \in NodeTags, src \in NodePaths,
       tgt \in {Omitted, PyStr(<<"a">>)}}

SpriteTaskNodes ==
    {MkNode([type |-> PyStr(SPRITE), name |-> n, desc |-> d, tags |-> g,
             source |-> src, sprite_sheet |-> sh, sprite_map |-> sh, sprite |-> sh]) :
       n \in NodeNames, d \in NodeDescs, g \in NodeTags, src \in NodePaths,
       sh \in {Omitted, PyStr(<<"h">>)}}

\* the nodes of the task runs: also a node of an unregistered type, a node
\* without a type, and a node that is no dict
TaskRunNodes ==
    FileTaskNodes \cup SpriteTaskNodes
    \cup {WidgetNode, MkNode([name |-> PyStr(<<"a">>)]), NotADict}

NoPackageRun ==
    /\ disk = <<>>
    /\ source_fs = NoFS
    /\ target_fs = NoFS
    /\ yaml_doc = NotADoc
    /\ manifest = NoManifest
    /\ napply = 0

InitTask ==
    /\ platform \in {"posix", "nt"}
    /\ taskmap = BuiltinTasks
    /\ task_node \in TaskRunNodes
    /\ task = NoTask
    /\ exported = NotADict
    /\ reexported = NotADict
    /\ last = NoOutcome
    /\ NoPackageRun
    /\ NoPathRun
    /\ NoFsRun
    /\ NoToolRun

Built(r) ==
    /\ task' = IF r.exc = "" THEN r.task ELSE NoTask
    /\ last' = Outcome("build", r.exc, Context(NoFS, NoFS), <<>>, "None")
    /\ UNCHANGED <<platform, packageVars, task_node, exported, reexported, pathVars, fsVars, toolVars>>

\* task = task_factory.build_from_node(task_node)
BuildFromNode ==
    /\ last.op = ""
    /\ Built(build_from_node(platform, taskmap, task_node))

\* exported = task.export()
Export ==
    /\ task # NoTask
    /\ exported = NotADict
    /\ exported' = export(task)
    /\ last' = Outcome("export", "", Context(NoFS, NoFS), <<>>, "None")
    /\ UNCHANGED <<platform, packageVars, task_node, task, reexported, pathVars, fsVars, toolVars>>

Repopulated(r) ==
    /\ reexported' = IF r.exc = "" THEN export(r.task) ELSE NotADict
    /\ last' = Outcome("populate", r.exc, Context(NoFS, NoFS), <<>>, "None")
    /\ UNCHANGED <<platform, packageVars, task_node, task, exported, pathVars, fsVars, toolVars>>

\* other = task_factory.build(task.type); other.populate(exported);
\* reexported = other.export()
Repopulate ==
    /\ exported # NotADict
    /\ last.op = "export"
    /\ Repopulated(populate(platform, task, exported))

NextTask == BuildFromNode \/ Export \/ Repopulate

SpecTask == InitTask /\ [][NextTask]_vars

\* C9: the export of a task populated from the export of a task T is the node
\* that T exported: the same keys with the same values, the tags compared as
\* a set.
C9_RoundTripStable ==
    reexported # NotADict =>
        /\ DOMAIN reexported.kv = DOMAIN exported.kv
        /\ \A k \in DOMAIN exported.kv :
             IF k = "tags"
             THEN {reexported.kv[k].l[i] : i \in 1..Len(reexported.kv[k].l)}
                    = {exported.kv[k].l[i] : i \in 1..Len(exported.kv[k].l)}
             ELSE reexported.kv[k] = exported.kv[k]

\* a string of at most n characters without leading or trailing whitespace
Trimmed(str, n) ==
    /\ Len(str) <= n
    /\ str # <<>> => Head(str) # SPACE /\ str[Len(str)] # SPACE

\* C18: after populate from any node, the name of a task has at most 64
\* characters and no leading or trailing whitespace, its description at most
\* 1024 characters and no leading or trailing whitespace, and every tag at
\* most 255 characters and no leading or trailing whitespace (the tags being
\* a set, each appears once).
C18_FieldsTrimmedAndBounded ==
    task # NoTask =>
        /\ task.name # PyNone => Trimmed(task.name.s, MAX_NAME_LENGTH)
        /\ task.desc # PyNone => Trimmed(task.desc.s, MAX_DESC_LENGTH)
        /\ \A tag \in task.tags : Trimmed(tag, MAX_TAG_LENGTH)

(***************************************************************************)
(* The path runs: a path of a manifest is normalized and a filesystem      *)
(* locates it and writes to it                                             *)
(***************************************************************************)

MaxPathLen == 4
PathChars == {"a", DOT, SLASH, BSLASH, COLON}
Paths == SeqsUpTo(PathChars, MaxPathLen)
\* a Windows-style path of a manifest: a\b/../c
ExamplePath == <<"a", BSLASH, "b", SLASH, DOT, DOT, SLASH, "c">>

InitPath ==
    /\ platform \in {"posix", "nt"}
    /\ \E tk \in {"dir", "zip"} :
         /\ target_fs = MkFS(tk, TargetRoot(platform, tk))
         /\ disk = Populated(platform, tk, TargetRoot(platform, tk),
                             [n \in {NameA} |-> "OLD"])
    /\ source_fs = NoFS
    /\ taskmap = BuiltinTasks
    /\ yaml_doc = NotADoc
    /\ manifest = NoManifest
    /\ napply = 0
    /\ last = NoOutcome
    /\ path \in Paths \cup {ExamplePath}
    /\ normalized = PyNone
    /\ located = PyNone
    /\ NoTaskRun
    /\ NoFsRun
    /\ NoToolRun

\* FileTask.populate: self.source = mm_util.normalize_package_path(source[...])
NormalizePath ==
    /\ normalized = PyNone
    /\ normalized' = PyStr(normalize_package_path(platform, PyStr(path)))
    /\ UNCHANGED <<platform, packageVars, last, taskVars, fsVars, toolVars, path, located>>

\* the place the filesystem goes to for the path: DirectoryFS.file_abspath,
\* PackageFS.normalize_path
Locate ==
    /\ normalized # PyNone
    /\ located = PyNone
    /\ located' = PyStr(IF target_fs.kind = "zip"
                        THEN PackageFS_normalize_path(normalized)
                        ELSE DirectoryFS_file_abspath(platform, target_fs, normalized))
    /\ UNCHANGED <<platform, packageVars, last, taskVars, fsVars, toolVars, path, normalized>>

Written(r) ==
    /\ disk' = r.disk
    /\ last' = Outcome("open", r.exc, Context(NoFS, NoFS), <<>>, "None")
    /\ UNCHANGED <<platform, source_fs, target_fs, taskmap, yaml_doc, manifest, napply,
                   taskVars, pathVars, fsVars, toolVars>>

\* with target_fs.open(path, 'wb') as file: file.write(b"X")
OpenWrite ==
    /\ located # PyNone
    /\ last.op = ""
    /\ Written(open_write(platform, disk, target_fs, normalized, "X"))

NextPath == NormalizePath \/ Locate \/ OpenWrite

SpecPath == InitPath /\ [][NextPath]_vars

\* C10: the place a filesystem goes to for a normalized path lies under its
\* root: for a directory, the root itself or a host path below it, and no
\* write leaves an entry of the host filesystem elsewhere; for an archive, a
\* member name without a ".." component.
C10_PathsStayUnderRoot ==
    /\ located # PyNone =>
         IF target_fs.kind = "zip"
         THEN \A i \in 1..Len(SplitOn(located.s, {SLASH})) :
                SplitOn(located.s, {SLASH})[i] # DOTDOT
         ELSE \/ located.s = target_fs.path
              \/ StartsWith(located.s, target_fs.path \o <<Sep(platform)>>)
    /\ \A p \in DOMAIN disk :
         \/ p = target_fs.path
         \/ StartsWith(p, target_fs.path \o <<Sep(platform)>>)

\* C11: a normalized path starts with "/" and holds neither a backslash nor a
\* drive separator; a\b/../c normalizes to /a/c; and the archive backend
\* addresses the entry named by the normalized path without its leading "/".
C11_NormalizedPosixPath ==
    normalized # PyNone =>
        /\ normalized.s # <<>>
        /\ Head(normalized.s) = SLASH
        /\ \A i \in 1..Len(normalized.s) : normalized.s[i] \notin {BSLASH, COLON}
        /\ path = ExamplePath => normalized.s = <<SLASH, "a", SLASH, "c">>
        /\ (located # PyNone /\ target_fs.kind = "zip") =>
             located.s = Tail(normalized.s)

(***************************************************************************)
(* The filesystem runs: a sprite is looked up in the sprite map of a       *)
(* filesystem, and files are written to it and read back                   *)
(***************************************************************************)

\* what a call on a filesystem gives: the exception raised ("" for none),
\* the file name it was about, the value returned or the bytes read
FsOutcome(op, exc, name, result) ==
    [op |-> op, exc |-> exc, name |-> name, result |-> result]

\* what the sprite map of the runs holds: a document, or bytes that are no XML
SpriteMaps == XmlBytes \cup {"OLD"}

InitFS ==
    /\ platform \in {"posix", "nt"}
    /\ \E tk \in {"dir", "zip"}, map \in SpriteMaps :
         /\ target_fs = MkFS(tk, TargetRoot(platform, tk))
         /\ disk = Populated(platform, tk, TargetRoot(platform, tk),
                             [n \in {NameA, NameMap} |-> IF n = NameMap THEN map ELSE "OLD"])
    /\ sprite_name \in {PyStr(IDLE_0), PyStr(idle_0)}
    /\ written = <<>>
    /\ last = FsOutcome("", "", <<>>, "None")
    /\ source_fs = NoFS
    /\ taskmap = BuiltinTasks
    /\ yaml_doc = NotADoc
    /\ manifest = NoManifest
    /\ napply = 0
    /\ NoTaskRun
    /\ NoPathRun
    /\ NoToolRun

LookedUp(r) ==
    /\ disk' = r.disk
    /\ last' = FsOutcome("lookup", r.exc, NameMap, PyResult(r.val))
    /\ UNCHANGED <<platform, source_fs, target_fs, taskmap, yaml_doc, manifest, napply,
                   taskVars, pathVars, fsVars, toolVars>>

\* mm_util.sprite_exists_in_map(target_fs, sprite_map, sprite)
Lookup ==
    LookedUp(sprite_exists_in_map(platform, disk, target_fs, PyStr(NameMap), sprite_name))

MaxWrites == 2
Contents == {"X", "Y", "BIG"}

WriteDone(name, b, mode, r) ==
    /\ disk' = r.disk
    /\ written' = IF r.exc = "" THEN Append(written, [name |-> name, bytes |-> b, mode |-> mode])
                  ELSE written
    /\ last' = FsOutcome("write", r.exc, name, "None")
    /\ UNCHANGED <<platform, source_fs, target_fs, taskmap, yaml_doc, manifest, napply,
                   taskVars, pathVars, sprite_name, toolVars>>

\* with target_fs.open(name, 'wb') as file: file.write(b)
WriteBinary ==
    /\ Len(written) < MaxWrites
    /\ \E name \in {NameA, NameB}, b \in Contents :
         WriteDone(name, b, "wb", open_write(platform, disk, target_fs, PyStr(name), b))

\* with target_fs.open(name, 'w') as file: file.write(b)
WriteText ==
    /\ Len(written) < MaxWrites
    /\ \E name \in {NameA, NameB}, b \in Contents :
         WriteDone(name, b, "w", open_write_text(platform, disk, target_fs, PyStr(name), b))

ExistsDone(name, r) ==
    /\ last' = FsOutcome("exists", r.exc, name, PyResult(r.val))
    /\ UNCHANGED <<platform, packageVars, taskVars, pathVars, fsVars, toolVars>>

\* target_fs.file_exists(name)
Exists ==
    \E name \in {NameA, NameB} :
        ExistsDone(name, file_exists(platform, disk, target_fs, PyStr(name)))

ReadBack(name, r) ==
    /\ disk' = r.disk
    /\ last' = FsOutcome("read", r.exc, name, r.bytes)
    /\ UNCHANGED <<platform, source_fs, target_fs, taskmap, yaml_doc, manifest, napply,
                   taskVars, pathVars, fsVars, toolVars>>

\* with target_fs.open(name, 'rb') as file: file.read()
Read ==
    \E name \in {NameA, NameB} :
        ReadBack(name, open_read(platform, disk, target_fs, PyStr(name)))

NextFS == Lookup \/ WriteBinary \/ WriteText \/ Exists \/ Read

SpecFS == InitFS /\ [][NextFS]_vars

\* some SubTexture element directly under a TextureAtlas element (tag names
\* in any letter case) of the document has the name attribute target
RECURSIVE HasSubTexture(_, _, _)
HasSubTexture(events, target, stack) ==
    IF events = <<>> THEN FALSE
    ELSE IF Head(events).ev = "end"
         THEN HasSubTexture(Tail(events), target, SubSeq(stack, 1, Len(stack) - 1))
    ELSE \/ /\ stack # <<>>
            /\ Lower(stack[Len(stack)]) = Lower(TEXTUREATLAS)
            /\ Lower(Head(events).tag) = Lower(SUBTEXTURE)
            /\ Head(events).name = PyStr(target)
         \/ HasSubTexture(Tail(events), target, Append(stack, Head(events).tag))

\* C12: a lookup in a sprite map that is an XML document returns found exactly
\* when some SubTexture element directly under a TextureAtlas element has a
\* name attribute equal to the requested sprite: for
\* <TextureAtlas><SubTexture name="Idle_0"/></TextureAtlas> found for "Idle_0"
\* and not found for "idle_0".
C12_SpriteLookup ==
    (/\ last.op = "lookup"
     /\ Content(platform, disk, target_fs, PyStr(NameMap)) \in XmlBytes) =>
        /\ last.exc = ""
        /\ (last.result = "True") <=>
             HasSubTexture(DocOf(Content(platform, disk, target_fs, PyStr(NameMap))),
                           sprite_name.s, <<>>)

\* the last write to a name, among the writes that completed
LastWrite(name) ==
    written[CHOOSE i \in 1..Len(written) :
              /\ written[i].name = name
              /\ \A j \in (i + 1)..Len(written) : written[j].name # name]

\* C16: on the archive backend, for a name that a completed write in text or
\* in binary mode has written, file_exists gives true and a read gives the
\* content of the last write to that name, also after writes to other names.
C16_ArchiveReadAfterWrite ==
    (/\ target_fs.kind = "zip"
     /\ last.op \in {"exists", "read"}
     /\ \E i \in 1..Len(written) : written[i].name = last.name) =>
        /\ last.exc = ""
        /\ last.op = "exists" => last.result = "True"
        /\ last.op = "read" => last.result = LastWrite(last.name).bytes

(***************************************************************************)
(* The factory runs: task types are defined in and removed from a          *)
(* TaskFactory, and tasks are built from it                                *)
(***************************************************************************)

MaxCalls == 3

\* the type tags of the runs: three names, the empty string, None
TaskTypes == {PyStr(FILE), PyStr(SPRITE), PyStr(WIDGET), PyStr(<<>>), PyNone}

\* what define_task is handed as a class: a task class, or the class str
ClassArgs == TaskClasses \cup {"str"}

Call(op, task_type, cls, exc) == [op |-> op, tag |-> task_type, cls |-> cls, exc |-> exc]

\* TaskFactory(define_builtin): define_builtin_tasks makes two calls of
\* define_task
InitFactory ==
    /\ platform = "posix"
    /\ \/ /\ taskmap = BuiltinTasks
          /\ calls = <<Call("define", PyStr(FILE), "FileTask", ""),
                       Call("define", PyStr(SPRITE), "SpriteTask", "")>>
       \/ /\ taskmap = <<>>
          /\ calls = <<>>
    /\ last = Call("", PyNone, "", "")
    /\ run = NoRun
    /\ disk = <<>>
    /\ source_fs = NoFS
    /\ target_fs = NoFS
    /\ yaml_doc = NotADoc
    /\ manifest = NoManifest
    /\ napply = 0
    /\ NoTaskRun
    /\ NoPathRun
    /\ NoFsRun

Called(op, task_type, cls, r) ==
    /\ taskmap' = r.taskmap
    /\ calls' = Append(calls, Call(op, task_type, cls, r.exc))
    /\ last' = Call(op, task_type, cls, r.exc)
    /\ UNCHANGED <<platform, disk, source_fs, target_fs, yaml_doc, manifest, napply,
                   taskVars, pathVars, fsVars, run>>

\* task_factory.define_task(task_type, task_class)
DefineTask ==
    /\ Len(calls) < MaxCalls
    /\ \E task_type \in TaskTypes, task_class \in ClassArgs :
         Called("define", task_type, task_class, define_task(taskmap, task_type, task_class))

\* task_factory.remove_task(task_type)
RemoveTask ==
    /\ Len(calls) < MaxCalls
    /\ \E task_type \in TaskTypes :
         Called("remove", task_type, "", remove_task(taskmap, task_type))

TaskBuilt(task_type, r) ==
    /\ last' = Call("build", task_type, r.task.cls, r.exc)
    /\ UNCHANGED <<platform, packageVars, taskVars, pathVars, fsVars, toolVars>>

\* task_factory.build(task_type)
Build ==
    \E task_type \in TaskTypes : TaskBuilt(task_type, build(taskmap, task_type))

NextFactory == DefineTask \/ RemoveTask \/ Build

SpecFactory == InitFactory /\ [][NextFactory]_vars

\* the last call that settles the registration of a type tag: a define_task
\* that was accepted, or a remove_task; 0 when there is none
Latest(log, task_type) ==
    LET settles == {i \in 1..Len(log) :
                      /\ log[i].tag = task_type
                      /\ \/ log[i].op = "remove"
                         \/ log[i].op = "define" /\ log[i].exc = ""}
    IN  IF settles = {} THEN 0
        ELSE CHOOSE i \in settles : \A j \in settles : j <= i

\* C14: after any sequence of define_task and remove_task calls, build(tag)
\* succeeds exactly for the tags whose latest operation was an accepted
\* define_task and builds the class registered last for the tag; for a tag
\* never registered or removed it fails with the unknown-type error
\* (ValueError); define_task with an empty tag is rejected and leaves the
\* registry as it was; remove_task of a registered tag leaves the
\* registration of every other tag as it was.
C14_RegistryLastWriteWins ==
    [][/\ Build =>
           IF Latest(calls, last'.tag) # 0 /\ calls[Latest(calls, last'.tag)].op = "define"
           THEN last'.exc = "" /\ last'.cls = calls[Latest(calls, last'.tag)].cls
           ELSE last'.exc = "ValueError"
       /\ (DefineTask /\ last'.tag = PyStr(<<>>)) =>
           last'.exc # "" /\ taskmap' = taskmap
       /\ (RemoveTask /\ last'.tag.t = "str" /\ last'.tag.s \in DOMAIN taskmap) =>
           \A k \in DOMAIN taskmap \ {last'.tag.s} :
               k \in DOMAIN taskmap' /\ taskmap'[k] = taskmap[k]]_vars

(***************************************************************************)
(* The packaging runs: a package is read from a filesystem and written to  *)
(* another                                                                 *)
(***************************************************************************)

\* the manifests of the runs: file and sprite tasks over a, b and over the
\* manifest file itself
ResourceNodes ==
    {FileNode(NameA, NameA), FileNode(NameB, NameB), FileNode(MANIFEST_FILENAME, NameA),
     SpriteNode(NameA, NameSheet, NameMap, IDLE_0)}

\* what the place of the target holds before: nothing, or what a target of
\* the package runs holds
InitWrite ==
    /\ platform \in {"posix", "nt"}
    /\ \E sk \in {"dir", "zip"}, tk \in {"dir", "zip"} :
         /\ source_fs = MkFS(sk, SourceRoot(platform, sk))
         /\ target_fs = MkFS(tk, TargetRoot(platform, tk))
         /\ \E sf \in SourceFiles, td \in TargetDisks(platform, tk) \cup {<<>>} :
              disk = Merge(Populated(platform, sk, SourceRoot(platform, sk), sf), td)
    /\ taskmap = BuiltinTasks
    /\ yaml_doc \in {ManifestDoc(<<>>, TRUE, TRUE, nodes) :
                        nodes \in SeqsUpTo(ResourceNodes, MaxTasks)}
    /\ manifest = NoManifest
    /\ last = NoOutcome
    /\ napply = 0
    /\ NoTaskRun
    /\ NoPathRun
    /\ NoFsRun
    /\ NoToolRun

WriteReturned(r) ==
    /\ disk' = r.disk
    /\ last' = Outcome("write", r.exc, Context(NoFS, NoFS), <<>>,
                       IF r.exc = "" THEN "True" ELSE "None")
    /\ UNCHANGED <<platform, source_fs, target_fs, taskmap, yaml_doc, manifest, napply>>
    /\ UNCHANGED <<taskVars, pathVars, fsVars, toolVars>>

\* package.write_to_filesystem(target_fs)
WriteToFilesystem ==
    WriteReturned(ModPackage_write_to_filesystem(platform, disk, source_fs, manifest,
                                                 target_fs))

NextWrite == ReadFromFilesystem \/ WriteToFilesystem

SpecWrite == InitWrite /\ [][NextWrite]_vars

\* C15: after write_to_filesystem(target) returns for a package whose
\* manifest has been read, the target filesystem exists, the manifest file of
\* the target holds the serialisation of manifest.export(), and for every
\* path r of manifest.list_resources() the target holds at r the bytes the
\* source filesystem holds at r.
C15_WrittenPackageComplete ==
    (last.op = "write" /\ last.exc = "" /\ manifest.set) =>
        /\ FileSystem_exists(platform, disk, target_fs)
        /\ open_read(platform, disk, target_fs, PyStr(MANIFEST_FILENAME)).exc = ""
        /\ open_read(platform, disk, target_fs, PyStr(MANIFEST_FILENAME)).bytes = EXPORT_BYTES
        /\ \A i \in 1..Len(manifest.tasks) :
             /\ open_read(platform, disk, target_fs, manifest.tasks[i].source).exc = ""
             /\ open_read(platform, disk, target_fs, manifest.tasks[i].source).bytes
                  = open_read(platform, disk, source_fs, manifest.tasks[i].source).bytes

\* C22: write_to_filesystem creates or truncates the target only when the
\* package's data could be gathered: when the manifest has not been read, or
\* the source filesystem lacks a resource the manifest lists, the call fails
\* and leaves the host filesystem, and so the target, as it was (not created,
\* not truncated, without a manifest entry or resources).
C22_FailedWriteLeavesTarget ==
    [][(/\ WriteToFilesystem
        /\ \/ ~manifest.set
           \/ \E i \in 1..Len(manifest.tasks) :
                ~file_exists(platform, disk, source_fs, manifest.tasks[i].source).val) =>
         /\ last'.exc # ""
         /\ disk' = disk]_vars

(***************************************************************************)
(* The runs of mmapply: main reads and validates every package it is given *)
(* and then applies them to the game directory                             *)
(***************************************************************************)

\* validate_mod_package on what package.validate gave (v): the exit status,
\* "" when it returns. An exception nobody catches ends the run with status 1.
validate_mod_package_lenient(v) == IF v.exc # "" THEN "1" ELSE ""

validate_mod_package(v) ==
    IF v.exc # "" THEN "1"
    ELSE IF Len(v.ctx.errors) > 0 THEN "1"
    ELSE ""

MaxPackages == 2

\* the package a run is given as its i-th: a directory or an archive
PackageRoot(plat, i, kind) ==
    HostPath(plat, <<"p", <<"1", "2", "3", "4">>[i]>>
                   \o (IF kind = "zip" THEN <<DOT, "Z", "i", "p">> ELSE <<>>))

\* the manifests of the packages of a run: also with a node of an
\* unregistered type, a node without a type after a file task, and a node
\* that is no dict
MainDocs ==
    {ManifestDoc(<<>>, TRUE, TRUE, nodes) :
       nodes \in {<<>>, <<FileNode(NameA, NameA)>>, <<FileNode(NameB, NameB)>>,
                  <<NewFileNode(NameB, <<"n">>)>>,
                  <<FileNode(NameA, NameA), FileNode(NameB, NameB)>>,
                  <<SpriteNode(NameA, NameSheet, NameMap, IDLE_0)>>,
                  <<WidgetNode>>, <<FileNode(NameA, NameA), MkNode([name |-> PyStr(NameA)])>>,
                  <<NotADict>>}}

\* a package of a run before it is read
MainPackage(plat, i, kind, doc) ==
    [root |-> PackageRoot(plat, i, kind), kind |-> kind, doc |-> doc,
     manifest |-> NoManifest, validated |-> FALSE, errors |-> <<>>]

RECURSIVE PackageLists(_, _)
PackageLists(plat, n) ==
    IF n = 0 THEN {<<>>}
    ELSE {Append(q, MainPackage(plat, n, kind, doc)) :
            q \in PackageLists(plat, n - 1), kind \in {"dir", "zip"}, doc \in MainDocs}

RECURSIVE PackageDisk(_, _, _, _)
PackageDisk(plat, packages, files, d) ==
    IF packages = <<>> THEN d
    ELSE PackageDisk(plat, Tail(packages), files,
                     Merge(Populated(plat, Head(packages).kind, Head(packages).root, files),
                           d))

\* main after parse_options: the game directory and every package exist
InitMain ==
    /\ platform \in {"posix", "nt"}
    /\ target_fs = DirectoryFS(TargetRoot(platform, "dir"))
    /\ taskmap = BuiltinTasks
    /\ \E n \in 1..MaxPackages, validate_only \in BOOLEAN, sf \in SourceFiles,
          have \in {{}, {NameA}} :
         \E packages \in PackageLists(platform, n) :
            /\ disk = PackageDisk(platform, packages, sf,
                                  Populated(platform, "dir", TargetRoot(platform, "dir"),
                                            [x \in have |-> "OLD"]))
            /\ run = [pc |-> "read", i |-> 1, packages |-> packages,
                      validate_only |-> validate_only, exit |-> "", started_on |-> disk]
    /\ calls = <<>>
    /\ last = NoOutcome
    /\ source_fs = NoFS
    /\ yaml_doc = NotADoc
    /\ manifest = NoManifest
    /\ napply = 0
    /\ NoTaskRun
    /\ NoPathRun
    /\ NoFsRun

MainStep(d, r, op, exc) ==
    /\ disk' = d
    /\ run' = r
    /\ last' = Outcome(op, exc, Context(NoFS, NoFS), <<>>, "None")
    /\ UNCHANGED <<platform, source_fs, target_fs, taskmap, yaml_doc, manifest, napply,
                   taskVars, pathVars, fsVars, calls>>

Exit(r, status) == [r EXCEPT !.pc = "exit", !.exit = status]

\* package = ModPackage(task_factory, source_filesystem);
\* package.read_from_filesystem()
MainReadDone(r) ==
    MainStep(r.disk,
             IF r.exc # "" THEN Exit(run, "1")
             ELSE [run EXCEPT !.packages[run.i].manifest = r.manifest, !.pc = "validate"],
             "read", r.exc)

MainRead ==
    /\ run.pc = "read"
    /\ MainReadDone(ModPackage_read_from_filesystem(
                        platform, disk, taskmap,
                        get_filesystem(platform, run.packages[run.i].root),
                        NoManifest, run.packages[run.i].doc))

\* main once a package was validated, status being what validate_mod_package
\* gave: the next package, or the end of the loop
MainValidated(r, status) ==
    IF status # "" THEN Exit(r, status)
    ELSE IF r.i < Len(r.packages) THEN [r EXCEPT !.pc = "read", !.i = r.i + 1]
    ELSE IF r.validate_only THEN Exit(r, "0")
    ELSE [r EXCEPT !.pc = "apply", !.i = 1]

\* validate_mod_package(package, game_filesystem); packages.append(package)
MainValidateDone(v) ==
    MainStep(v.disk,
             MainValidated([run EXCEPT !.packages[run.i].validated = (v.exc = ""),
                                       !.packages[run.i].errors = v.ctx.errors],
                           validate_mod_package(v)),
             "validate", v.exc)

MainValidate ==
    /\ run.pc = "validate"
    /\ MainValidateDone(ModPackage_validate(
                            platform, disk,
                            get_filesystem(platform, run.packages[run.i].root),
                            run.packages[run.i].manifest, target_fs))

\* context = package.apply(game_filesystem) and the test of context.errors
MainApplyDone(a) ==
    MainStep(a.disk,
             IF a.exc # "" \/ Len(a.ctx.errors) > 0 THEN Exit(run, "1")
             ELSE IF run.i < Len(run.packages) THEN [run EXCEPT !.i = run.i + 1]
             ELSE Exit(run, "0"),
             "apply", a.exc)

MainApply ==
    /\ run.pc = "apply"
    /\ MainApplyDone(ModPackage_apply(
                         platform, disk,
                         get_filesystem(platform, run.packages[run.i].root),
                         run.packages[run.i].manifest, target_fs))

NextMain == MainRead \/ MainValidate \/ MainApply

SpecMain == InitMain /\ [][NextMain]_vars

\* C17: in a run of main over its packages, the host filesystem (and so the
\* game directory) changes only in a step of the apply loop, which is taken
\* only after every listed package was read and validated with no error; and
\* once the validation of a package has found an error, the run has exited
\* with status 1 and the filesystem is as the run found it.
C17_NoApplyBeforeAllValid ==
    [][/\ disk' # disk =>
           /\ MainApply
           /\ \A i \in 1..Len(run.packages) :
                /\ run.packages[i].manifest.set
                /\ run.packages[i].validated
                /\ run.packages[i].errors = <<>>
       /\ (\E i \in 1..Len(run'.packages) : run'.packages[i].errors # <<>>) =>
           /\ run'.pc = "exit"
           /\ run'.exit = "1"
           /\ disk' = run'.started_on]_vars

\* a run over two packages has ended with status 1 at the validation of the
\* second, after the first was validated without error
C17_Witness ==
    /\ run.pc = "exit"
    /\ run.exit = "1"
    /\ Len(run.packages) = 2
    /\ run.packages[1].validated
    /\ run.packages[1].errors = <<>>
    /\ run.packages[2].errors # <<>>
    /\ ~run.validate_only

\* what build_from_node raises for a node it cannot build from ("" for a
\* node it can)
NodeFailure(registered, node) ==
    IF ~node.isdict THEN "TypeError"
    ELSE IF "type" \notin DOMAIN node.kv THEN "ValueError"
    ELSE IF node.kv["type"].s \notin registered THEN "ValueError"
    ELSE ""

\* C20: build_from_node fails for a node that is no mapping (TypeError), for
\* a mapping without a type key (ValueError) and for a mapping whose type is
\* not registered (ValueError); the failure ends the reading of the package,
\* which leaves the filesystem as it was, and the run, so that validate and
\* apply, in which tasks look at, read and write files, are never called on
\* that package.
C20_BadNodeFailsAtParse ==
    [][/\ (MainRead /\ \E k \in 1..Len(run.packages[run.i].doc.tasks) :
                          NodeFailure(DOMAIN taskmap, run.packages[run.i].doc.tasks[k]) # "") =>
           /\ \E k \in 1..Len(run.packages[run.i].doc.tasks) :
                /\ last'.exc = NodeFailure(DOMAIN taskmap, run.packages[run.i].doc.tasks[k])
                /\ last'.exc # ""
           /\ disk' = disk
           /\ run'.pc = "exit"
           /\ run'.exit = "1"
       /\ \A i \in 1..Len(run.packages) :
           (\E k \in 1..Len(run.packages[i].doc.tasks) :
               NodeFailure(DOMAIN taskmap, run.packages[i].doc.tasks[k]) # "") =>
             /\ ~run'.packages[i].validated
             /\ (MainValidate \/ MainApply) => run.i # i]_vars

\* a run has ended at the reading of its second package, whose manifest holds
\* a node without a type, after the first package was validated
C20_Witness ==
    /\ run.pc = "exit"
    /\ run.exit = "1"
    /\ last.op = "read"
    /\ last.exc = "ValueError"
    /\ run.i = 2
    /\ run.packages[1].validated
    /\ \E k \in 1..Len(run.packages[2].doc.tasks) :
         /\ run.packages[2].doc.tasks[k].isdict
         /\ "type" \notin DOMAIN run.packages[2].doc.tasks[k].kv

====
